---- MODULE Spec2Model ----
(***************************************************************************)
(* State-machine model of the profiler's sampling core:                    *)
(*   - the per-thread context table          (context.cpp)                 *)
(*   - CodeCache / CodeCacheArray            (codeCache.h, codeCache.cpp)  *)
(*   - the liveness tracker                  (livenessTracker.cpp)         *)
(*   - the flight recorder                   (flightRecorder.cpp)          *)
(* Each subsystem has its own specification (SpecCtx, SpecCC, SpecLibs,    *)
(* SpecLT, SpecRec, and SpecCpool for the constant pools of the recorder); *)
(* the variables of the other subsystems stay at their initial values.     *)
(* The encoders of Buffer and the sizing of the liveness table are pure    *)
(* functions, applied to bounded inputs in SpecBuf and SpecCap.            *)
(* SpecPages has concurrent callers of Contexts::getPage, SpecNativeLibs   *)
(* the native library events of a recording beside a thread that adds      *)
(* libraries, SpecTrack concurrent track calls on a table with room for    *)
(* two entries.  SpecStop has two threads calling stop, flush and dump on  *)
(* a started recorder, and FairStop adds that running threads make         *)
(* progress; SpecOccupancy follows the write cursors of the recorder's     *)
(* buffers in bytes.                                                       *)
(***************************************************************************)
EXTENDS Integers, Sequences, FiniteSets, TLC

VARIABLES
    \* ---- context table (context.cpp)
    pages,        \* Contexts::_pages: page index -> [ptr, slots]; ptr = NULL: no page
    ctxBytes,     \* Counters::CONTEXT_STORAGE_BYTES, in units of one page
    ctxPages,     \* Counters::CONTEXT_STORAGE_PAGES
    wr,           \* the writer of context records (its position in a write)
    wrHist,       \* every <<tid, spanId, rootSpanId>> a write has stored
    rd,           \* a caller of Contexts::get (its position and loads)
    \* ---- CodeCache (codeCache.cpp)
    cc,           \* one CodeCache object
    ccq,          \* the last lookup made on it
    \* ---- CodeCacheArray (codeCache.h)
    libs,         \* CodeCacheArray::_libs
    libCount,     \* CodeCacheArray::_count
    libOob,       \* stores of add() that fell outside _libs
    libAdds,      \* calls of add() so far
    libOrder,     \* the libraries handed to add(), in the order of the calls
    libWr,        \* the (single) caller of add(): its position
    libRd,        \* a reader: the count it loaded, the slot it read
    \* ---- liveness tracker (livenessTracker.cpp)
    lt,           \* LivenessTracker fields: _initialized, _table_max_cap, _table_cap,
                  \* _table_size, _gc_epoch, _last_gc_epoch, and the number of
                  \* entries the block _table points to (0: _table is NULL)
    table,        \* the memory _table indexes: index -> TrackingEntry
    ltLock,       \* _table_lock: 0 free, 1 exclusive, -n held shared n times
    th,           \* the threads inside track / cleanup_table / flush_table
    heap,         \* the managed heap: sampled objects still alive, weak global
                  \* references in existence, GarbageCollectionFinish events
    events,       \* the events of the latest flush_table, in order
    tracks,       \* calls of track so far
    walked,       \* the sum of the epoch_diff the walks of cleanup_table applied
    born,         \* sampled object -> the GarbageCollectionFinish events seen
                  \* when track stored its entry
    \* ---- flight recorder (flightRecorder.cpp)
    recLock,      \* _rec_lock: 0 free, 1 exclusive, -n held shared n times
    recPtr,       \* FlightRecorder::_rec: NULL or the address of the Recording
    recArgs,      \* FlightRecorder::_args: <<_chunk_size, _chunk_time>>
    rec,          \* the fields of the Recording _rec points to
    file,         \* the recording file: a sequence of cells
    filePos,      \* the file offset of the descriptor _fd (the append position)
    clock,        \* OS::micros()
    rth,          \* the threads inside the FlightRecorder entry points
    closed,       \* [start, end] of the chunks finishChunk has closed in the file
    pools,        \* the constant pools the Recording has written, one per writeCpool
    classMap,     \* Profiler::classMap(): the classes looked up so far
    ioFaults,     \* write / pwrite calls that failed or were short so far
    recOps,       \* calls of start, stop, dump, flush, timerTick, recordLog so far
    target,       \* the file the latest dump(filename) has copied to
    \* ---- Buffer (flightRecorder.cpp)
    buf,          \* Buffer::_data up to _offset, one element per byte
    bcall,        \* the call that filled it, with its arguments
    \* ---- sizing of the liveness table (livenessTracker.cpp)
    sizing,       \* heap size and interval given, _table_max_cap, _table_cap and
                  \* the growth steps taken
    \* ---- concurrent callers of Contexts::getPage (context.cpp)
    gp,           \* the callers: their position, page index, candidate page
                  \* and the storage pointer they return
    cand,         \* the candidate pages: allocated so far, freed so far
    \* ---- native library events of a recording (flightRecorder.cpp)
    nl,           \* Recording::_recorded_lib_count, the position inside
                  \* writeNativeLibraries, the events written, the chunks closed
    \* ---- concurrent callers of stop, flush and dump (flightRecorder.cpp)
    ctl,          \* the callers: their position and the call they are in
    ctlStarts,    \* calls of start after the first one
    \* ---- occupancy of the recorder buffers (flightRecorder.cpp)
    occ           \* the position inside the recorder, the write cursors of
                  \* _buf[0] and _cpu_monitor_buf and where the latest record
                  \* of each ended

ctxVars  == <<pages, ctxBytes, ctxPages, wr, wrHist, rd>>
ccVars   == <<cc, ccq>>
libVars  == <<libs, libCount, libOob, libAdds, libOrder, libWr, libRd>>
ltVars   == <<lt, table, ltLock, th, heap, events, tracks, walked, born>>
recVars  == <<recLock, recPtr, recArgs, rec, file, filePos, clock, rth, closed, pools,
              classMap, ioFaults, recOps,
             target>>
bufVars  == <<buf, bcall>>
capVars  == <<sizing>>
gpVars   == <<gp, cand>>
nlVars   == <<nl>>
ctlVars  == <<ctl, ctlStarts>>
occVars  == <<occ>>
vars     == <<ctxVars, ccVars, libVars, ltVars, recVars, bufVars, capVars, gpVars,
              nlVars, ctlVars, occVars>>

\* what an action of one subsystem leaves alone
CtxFrame == UNCHANGED <<ccVars, libVars, ltVars, recVars, bufVars, capVars, gpVars,
                        nlVars, ctlVars, occVars>>
CCFrame  == UNCHANGED <<ctxVars, libVars, ltVars, recVars, bufVars, capVars, gpVars,
                        nlVars, ctlVars, occVars>>
LibFrame == UNCHANGED <<ctxVars, ccVars, ltVars, recVars, bufVars, capVars, gpVars,
                        nlVars, ctlVars, occVars>>
LTFrame  == UNCHANGED <<ctxVars, ccVars, libVars, recVars, bufVars, capVars, gpVars,
                        nlVars, ctlVars, occVars, born>>
\* the same for the stores of track into its entry
FillFrame == UNCHANGED <<ctxVars, ccVars, libVars, recVars, bufVars, capVars, gpVars,
                        nlVars, ctlVars, occVars>>
RecFrame == UNCHANGED <<ctxVars, ccVars, libVars, ltVars, bufVars, capVars, gpVars,
                        nlVars, ctlVars, occVars, target>>
\* the same for the copy of dump, which writes the target
DumpFrame == UNCHANGED <<ctxVars, ccVars, libVars, ltVars, bufVars, capVars, gpVars,
                        nlVars, ctlVars, occVars>>
BufFrame == UNCHANGED <<ctxVars, ccVars, libVars, ltVars, recVars, capVars, gpVars,
                        nlVars, ctlVars, occVars>>
CapFrame == UNCHANGED <<ctxVars, ccVars, libVars, ltVars, recVars, bufVars, gpVars,
                        nlVars, ctlVars, occVars>>
\* the callers of getPage share the page array and the counters with the
\* context table
GpFrame  == UNCHANGED <<wr, wrHist, rd, ccVars, libVars, ltVars, recVars, bufVars,
                        capVars, nlVars, ctlVars, occVars>>
\* writeNativeLibraries reads the array of libraries
NlFrame  == UNCHANGED <<ctxVars, ccVars, libVars, ltVars, recVars, bufVars, capVars,
                        gpVars, ctlVars, occVars>>
\* the callers of stop, flush and dump share the lock and _rec with the
\* recorder
CtlFrame == UNCHANGED <<ctxVars, ccVars, libVars, ltVars, bufVars, capVars, gpVars,
                        nlVars, recArgs, rec, file, filePos, clock, rth, closed,
                        pools, classMap, ioFaults, recOps, target, occVars>>
\* the writers of the recorder move the cursors of its buffers
OccFrame == UNCHANGED <<ctxVars, ccVars, libVars, ltVars, recVars, bufVars, capVars,
                        gpVars, nlVars, ctlVars>>

\* the null pointer
NULL == 0
\* a value read from memory nobody has written since malloc / realloc, or
\* from memory behind the end of an array
Uninit == -1

(***************************************************************************)
(* Bitwise exclusive or of two naturals (the ^ of context.cpp:34).         *)
(***************************************************************************)
RECURSIVE XOR(_, _)
XOR(a, b) ==
    IF a = 0 THEN b
    ELSE IF b = 0 THEN a
    ELSE (((a % 2) + (b % 2)) % 2) + (2 * XOR(a \div 2, b \div 2))

(***************************************************************************)
(*                         CONTEXT TABLE                                   *)
(***************************************************************************)
\* Number of successive context writes explored.
MaxWrites == 2
\* Thread ids are 0 .. MaxTid-1 (the maxTid of Contexts::getMaxPages).
MaxTid == 3
\* Records per page; a power of two (DD_CONTEXT_PAGE_SIZE, scaled down).
DD_CONTEXT_PAGE_SIZE == 2
DD_CONTEXT_PAGE_SHIFT == 1
DD_CONTEXT_PAGE_MASK == DD_CONTEXT_PAGE_SIZE - 1
\* Values a span id or a root span id takes.
IdValues == 0 .. 1

Tids == 0 .. (MaxTid - 1)

\* Contexts::getMaxPages: the pages that cover all allowed thread ids
getMaxPages == (MaxTid + DD_CONTEXT_PAGE_SIZE - 1) \div DD_CONTEXT_PAGE_SIZE

PageIdx == 0 .. (getMaxPages - 1)
Slots == 0 .. (DD_CONTEXT_PAGE_SIZE - 1)

\* tid >> DD_CONTEXT_PAGE_SHIFT and tid & DD_CONTEXT_PAGE_MASK
RECURSIVE Pow2(_)
Pow2(n) == IF n = 0 THEN 1 ELSE 2 * Pow2(n - 1)
pageIndexOf(tid) == tid \div Pow2(DD_CONTEXT_PAGE_SHIFT)
slotOf(tid) == tid % (DD_CONTEXT_PAGE_MASK + 1)

\* static Context DD_EMPTY_CONTEXT = {}
DD_EMPTY_CONTEXT == [spanId |-> 0, rootSpanId |-> 0, checksum |-> 0]

\* a freshly allocated page: memset(page, 0, capacity); p is its address
ZeroPage(p) == [ptr |-> p, slots |-> [s \in Slots |-> DD_EMPTY_CONTEXT]]
\* no page: the slot of _pages holds NULL
NoPage == ZeroPage(NULL)

\* the validity predicate of Contexts::get
ChecksumOk(s, r, c) == XOR(s, r) = c

NoVal == -1
RdIdle == [pc |-> "idle", tid |-> 0, page |-> NULL,
           spanId |-> NoVal, rootSpanId |-> NoVal, checksum |-> NoVal,
           res |-> "none", stores |-> {}, copy |-> DD_EMPTY_CONTEXT]
WrIdle == [pc |-> "idle", tid |-> 0, spanId |-> 0, rootSpanId |-> 0, n |-> 0]

CtxInit ==
    /\ pages = [p \in PageIdx |-> NoPage]
    /\ ctxBytes = 0
    /\ ctxPages = 0
    /\ wr = WrIdle
    /\ wrHist = {}
    /\ rd = RdIdle

\* Contexts::getPage -> Contexts::initialize, one caller at a time: a NULL
\* slot gets a zeroed page by compare-and-swap and the counters are bumped.
getPage(tid) ==
    LET pageIndex == pageIndexOf(tid) IN
    /\ IF pages[pageIndex].ptr = NULL
       THEN /\ pages' = [pages EXCEPT ![pageIndex] = ZeroPage(pageIndex + 1)]
            /\ ctxBytes' = ctxBytes + 1
            /\ ctxPages' = ctxPages + 1
       ELSE UNCHANGED <<pages, ctxBytes, ctxPages>>
    /\ UNCHANGED <<wr, wrHist, rd>>
    /\ CtxFrame

\* A store of the writer lands in the slot; a reader in the middle of get()
\* has seen a store of write number n go by.
StoreField(tid, f, v, n) ==
    /\ pages' = [pages EXCEPT ![pageIndexOf(tid)].slots[slotOf(tid)][f] = v]
    /\ rd' = IF rd.pc = "check" /\ rd.tid = tid
             THEN [rd EXCEPT !.stores = @ \cup {n}]
             ELSE rd

\* The writer side (the managed runtime, through the page's direct buffer):
\* three separate stores, spanId, then rootSpanId, then checksum.
WriteSpanId(tid, s, r) ==
    /\ wr.pc = "idle"
    /\ wr.n < MaxWrites
    /\ pages[pageIndexOf(tid)].ptr # NULL
    /\ wr' = [pc |-> "root", tid |-> tid, spanId |-> s, rootSpanId |-> r, n |-> wr.n + 1]
    /\ wrHist' = wrHist \cup {<<tid, s, r>>}
    /\ StoreField(tid, "spanId", s, wr.n + 1)
    /\ UNCHANGED <<ctxBytes, ctxPages>>
    /\ CtxFrame

WriteRootSpanId ==
    /\ wr.pc = "root"
    /\ wr' = [wr EXCEPT !.pc = "chk"]
    /\ StoreField(wr.tid, "rootSpanId", wr.rootSpanId, wr.n)
    /\ UNCHANGED <<ctxBytes, ctxPages, wrHist>>
    /\ CtxFrame

WriteChecksum ==
    /\ wr.pc = "chk"
    /\ wr' = [wr EXCEPT !.pc = "idle"]
    /\ StoreField(wr.tid, "checksum", XOR(wr.spanId, wr.rootSpanId), wr.n)
    /\ UNCHANGED <<ctxBytes, ctxPages, wrHist>>
    /\ CtxFrame

\* Contexts::get, lines 29-32: the page pointer is loaded; a NULL page
\* returns empty().
GetLoadPage(tid) ==
    /\ rd.pc \in {"idle", "done"}
    /\ pageIndexOf(tid) < getMaxPages
    /\ LET page == pages[pageIndexOf(tid)].ptr IN
       rd' = IF page = NULL
             THEN [RdIdle EXCEPT !.pc = "returned", !.tid = tid, !.res = "empty"]
             ELSE [RdIdle EXCEPT !.pc = "check", !.tid = tid, !.page = page]
    /\ UNCHANGED <<pages, ctxBytes, ctxPages, wr, wrHist>>
    /\ CtxFrame

\* Contexts::get, line 34: the three plain loads of the comparison, in the
\* order the build picks.
GetLoadField(f) ==
    /\ rd.pc = "check"
    /\ rd[f] = NoVal
    /\ rd' = [rd EXCEPT ![f] = pages[pageIndexOf(rd.tid)].slots[slotOf(rd.tid)][f]]
    /\ UNCHANGED <<pages, ctxBytes, ctxPages, wr, wrHist>>
    /\ CtxFrame

\* (mutants: the comparison dropped; the comparison inverted)
GetAcceptsUnchecked(s, r, c) == TRUE
GetAcceptsInverted(s, r, c) == XOR(s, r) # c
\* the outcome of the comparison of line 34 on the loaded values
GetAccepts(s, r, c) == XOR(s, r) = c

\* Contexts::get, lines 34-38: return the slot (by reference) or empty().
GetReturn ==
    /\ rd.pc = "check"
    /\ rd.spanId # NoVal /\ rd.rootSpanId # NoVal /\ rd.checksum # NoVal
    /\ rd' = [rd EXCEPT !.pc = "returned",
                        !.res = IF GetAccepts(rd.spanId, rd.rootSpanId, rd.checksum)
                                THEN "slot" ELSE "empty"]
    /\ UNCHANGED <<pages, ctxBytes, ctxPages, wr, wrHist>>
    /\ CtxFrame

\* The caller reads the record behind the returned reference
\* (livenessTracker.cpp:273, _table[idx].ctx = Contexts::get(tid)).
GetConsume ==
    /\ rd.pc = "returned"
    /\ rd' = [rd EXCEPT !.pc = "done",
                        !.copy = IF rd.res = "slot"
                                 THEN pages[pageIndexOf(rd.tid)].slots[slotOf(rd.tid)]
                                 ELSE DD_EMPTY_CONTEXT]
    /\ UNCHANGED <<pages, ctxBytes, ctxPages, wr, wrHist>>
    /\ CtxFrame

CtxNext ==
    \/ \E tid \in Tids : getPage(tid)
    \/ \E tid \in Tids, s \in IdValues, r \in IdValues : WriteSpanId(tid, s, r)
    \/ WriteRootSpanId
    \/ WriteChecksum
    \/ \E tid \in Tids : GetLoadPage(tid)
    \/ \E f \in {"spanId", "rootSpanId", "checksum"} : GetLoadField(f)
    \/ GetReturn
    \/ GetConsume

\* the pairs one single write stored in tid's record, and the initial record
PairsWritten(tid) ==
    {<<0, 0>>} \cup {<<h[2], h[3]>> : h \in {x \in wrHist : x[1] = tid}}

\* C1 (as amended): get returns the shared empty record or a slot whose three
\* fields, as get loaded them, satisfy (spanId XOR rootSpanId) = checksum;
\* with no page allocated for tid it returns the shared empty record.
C1_GetEmptyOrAcceptedLoads ==
    rd.pc \in {"returned", "done"} =>
        /\ rd.res \in {"empty", "slot"}
        /\ (rd.page = NULL => rd.res = "empty")
        /\ (rd.res = "slot" =>
               ChecksumOk(rd.spanId, rd.rootSpanId, rd.checksum))
        /\ (rd.pc = "done" /\ rd.res = "empty" => rd.copy = DD_EMPTY_CONTEXT)

\* C1 witness: get returned a slot holding a written record while a writer
\* was storing into it.
C1_Witness ==
    /\ rd.pc = "returned" /\ rd.res = "slot"
    /\ rd.spanId # 0 /\ rd.stores # {}

\* C1 (as stated): under every interleaving with writers, the record get
\* returned is the empty record or satisfies the checksum predicate when
\* the caller reads it.
C1_ReturnedRecordValid ==
    rd.pc = "done" =>
        ChecksumOk(rd.copy.spanId, rd.copy.rootSpanId, rd.copy.checksum)

\* C2 (as stated): every pair get accepts is the pair of one single write
\* (or the initial record), for any interleaving of loads and stores.
C2_AcceptedPairIsOneWrite ==
    rd.pc = "returned" /\ rd.res = "slot" =>
        <<rd.spanId, rd.rootSpanId>> \in PairsWritten(rd.tid)

\* C2 (as amended): when the stores that fall between get's loads all belong
\* to one write, every pair get accepts is the pair of one single write or
\* the initial record, never a mix of two writes.
C2_AcceptedPairIsOneWriteIfOneOverlap ==
    rd.pc = "returned" /\ rd.res = "slot" /\ Cardinality(rd.stores) <= 1 =>
        <<rd.spanId, rd.rootSpanId>> \in PairsWritten(rd.tid)

\* C2 witness: a second write overlapped get's loads and its pair was
\* accepted.
C2_Witness ==
    /\ rd.pc = "returned" /\ rd.res = "slot"
    /\ rd.stores = {2}
    /\ <<rd.spanId, rd.rootSpanId>> # <<0, 0>>
    /\ <<rd.spanId, rd.rootSpanId>> = <<wr.spanId, wr.rootSpanId>>

(***************************************************************************)
(*                              CODE CACHE                                 *)
(***************************************************************************)
\* Blobs added to the cache before it is sorted.
MaxBlobs == 3
\* The addresses blobs start at and the lengths they have.
Starts == 0 .. 2
Lengths == 0 .. 2
\* INITIAL_CODE_CACHE_CAPACITY (scaled down)
INITIAL_CODE_CACHE_CAPACITY == 2

\* the highest address, (const void*)-1 (scaled down), and the lowest
NO_MIN_ADDRESS == 5
NO_MAX_ADDRESS == 0

\* the addresses looked up: every address below the highest
Addresses == 0 .. (NO_MIN_ADDRESS - 1)

\* Name pointers are allocation numbers: NativeFunc::create never returns
\* NULL; the cache's own name is allocated first, by the constructor.
CacheNamePtr == 1

\* CodeCache::CodeCache(name, lib_index, min_address, max_address)
CodeCache(min_address, max_address) ==
    [phase |-> "building", name |-> CacheNamePtr,
     min_address |-> min_address, max_address |-> max_address,
     capacity |-> INITIAL_CODE_CACHE_CAPACITY, blobs |-> <<>>,
     allocs |-> 1]

NoLookup == [op |-> "none", addr |-> 0, res |-> NULL]

\* a cache built with the default bounds, or with bounds given
CCInit ==
    /\ cc \in {CodeCache(NO_MIN_ADDRESS, NO_MAX_ADDRESS), CodeCache(1, 2)}
    /\ ccq = NoLookup

\* the cache as the other specifications leave it
CCQuiet ==
    /\ cc = CodeCache(NO_MIN_ADDRESS, NO_MAX_ADDRESS)
    /\ ccq = NoLookup

\* (mutant: ties on start broken by the shorter extent first)
comparatorEndAscending(cb1, cb2) ==
    IF cb1.start < cb2.start THEN -1
    ELSE IF cb1.start > cb2.start THEN 1
    ELSE IF cb1.end = cb2.end THEN 0
    ELSE IF cb1.end < cb2.end THEN -1 ELSE 1
\* CodeBlob::comparator
comparator(cb1, cb2) ==
    IF cb1.start < cb2.start THEN -1
    ELSE IF cb1.start > cb2.start THEN 1
    ELSE IF cb1.end = cb2.end THEN 0
    ELSE IF cb1.end > cb2.end THEN -1 ELSE 1

\* CodeCache::updateBounds
updateBounds(c, start, end) ==
    [c EXCEPT !.min_address = IF start < @ THEN start ELSE @,
              !.max_address = IF end > @ THEN end ELSE @]

\* CodeCache::add (expand() doubles the capacity of a full array)
add(start, length, update_bounds) ==
    /\ cc.phase = "building"
    /\ Len(cc.blobs) < MaxBlobs
    /\ LET name_copy == cc.allocs + 1
           end == start + length
           grown == [cc EXCEPT !.capacity = IF Len(cc.blobs) >= @ THEN @ * 2 ELSE @,
                               !.allocs = name_copy,
                               !.blobs = Append(@, [start |-> start, end |-> end,
                                                    name |-> name_copy])]
       IN cc' = IF update_bounds THEN updateBounds(grown, start, end) ELSE grown
    /\ UNCHANGED ccq
    /\ CCFrame

\* the orders qsort may leave the blobs in: every arrangement that the
\* comparator accepts (blobs that compare equal may land either way)
Orderings(blobs) ==
    LET n == Len(blobs)
        perms == {f \in [1 .. n -> 1 .. n] : \A i, j \in 1 .. n : i # j => f[i] # f[j]}
    IN {[i \in 1 .. n |-> blobs[f[i]]] : f \in
           {g \in perms : \A i, j \in 1 .. n :
                i < j => comparator(blobs[g[i]], blobs[g[j]]) <= 0}}

\* CodeCache::sort
sort ==
    /\ cc.phase = "building"
    /\ IF Len(cc.blobs) = 0
       THEN cc' = [cc EXCEPT !.phase = "sorted"]
       ELSE \E sorted \in Orderings(cc.blobs) :
              cc' = [cc EXCEPT
                  !.phase = "sorted",
                  !.blobs = sorted,
                  !.min_address = IF @ = NO_MIN_ADDRESS THEN sorted[1].start ELSE @,
                  !.max_address = IF @ = NO_MAX_ADDRESS THEN sorted[Len(sorted)].end ELSE @]
    /\ UNCHANGED ccq
    /\ CCFrame

\* CodeCache::find: the index (from 1) of the first blob whose half-open
\* range holds the address, 0 (NULL) when there is none
RECURSIVE findFrom(_, _, _)
findFrom(blobs, i, address) ==
    IF i > Len(blobs) THEN 0
    ELSE IF address >= blobs[i].start /\ address < blobs[i].end THEN i
    ELSE findFrom(blobs, i + 1, address)
find(c, address) == findFrom(c.blobs, 1, address)

\* (mutant: a blob is taken to hold its end address)
RECURSIVE bsLoopEndInclusive(_, _, _, _)
bsLoopEndInclusive(blobs, low, high, address) ==
    IF low > high THEN [hit |-> FALSE, low |-> low, name |-> NULL]
    ELSE LET mid == (low + high) \div 2 IN
         IF blobs[mid + 1].end < address
            THEN bsLoopEndInclusive(blobs, mid + 1, high, address)
         ELSE IF blobs[mid + 1].start > address
            THEN bsLoopEndInclusive(blobs, low, mid - 1, address)
         ELSE [hit |-> TRUE, low |-> low, name |-> blobs[mid + 1].name]
\* CodeCache::binarySearch, the loop (blob indices from 0 as in the code):
\* the name of the blob hit, or the final low when the loop ends without one
RECURSIVE bsLoop(_, _, _, _)
bsLoop(blobs, low, high, address) ==
    IF low > high THEN [hit |-> FALSE, low |-> low, name |-> NULL]
    ELSE LET mid == (low + high) \div 2 IN
         IF blobs[mid + 1].end <= address
            THEN bsLoop(blobs, mid + 1, high, address)
         ELSE IF blobs[mid + 1].start > address
            THEN bsLoop(blobs, low, mid - 1, address)
         ELSE [hit |-> TRUE, low |-> low, name |-> blobs[mid + 1].name]

\* (mutants of binarySearch)
binarySearchNoFallback(c, address) ==
    LET r == bsLoop(c.blobs, 0, Len(c.blobs) - 1, address) IN
    IF r.hit THEN r.name ELSE NULL
binarySearchNoEndRule(c, address) ==
    LET r == bsLoop(c.blobs, 0, Len(c.blobs) - 1, address) IN
    IF r.hit THEN r.name
    ELSE IF r.low > 0 /\ c.blobs[r.low].start = c.blobs[r.low].end
         THEN c.blobs[r.low].name
    ELSE c.name
binarySearchStrictEnd(c, address) ==
    LET r == bsLoop(c.blobs, 0, Len(c.blobs) - 1, address) IN
    IF r.hit THEN r.name
    ELSE IF r.low > 0 /\ c.blobs[r.low].start = c.blobs[r.low].end
                     /\ c.blobs[r.low].end = address
         THEN c.blobs[r.low].name
    ELSE c.name
\* CodeCache::binarySearch
binarySearch(c, address) ==
    LET r == bsLoop(c.blobs, 0, Len(c.blobs) - 1, address) IN
    IF r.hit THEN r.name
    ELSE IF r.low > 0 /\ (c.blobs[r.low].start = c.blobs[r.low].end
                          \/ c.blobs[r.low].end = address)
         THEN c.blobs[r.low].name
    ELSE c.name

\* a lookup on the sorted cache
Lookup(address) ==
    /\ cc.phase = "sorted"
    /\ ccq' = [op |-> "binarySearch", addr |-> address, res |-> binarySearch(cc, address)]
    /\ UNCHANGED cc
    /\ CCFrame

CCNext ==
    \/ \E start \in Starts, length \in Lengths, ub \in BOOLEAN :
          add(start, length, ub)
    \/ sort
    \/ \E a \in Addresses : Lookup(a)


\* ---- what the claims speak of
BlobIdx == 1 .. Len(cc.blobs)
Holds(i, a) == cc.blobs[i].start <= a /\ a < cc.blobs[i].end
ZeroLength(i) == cc.blobs[i].start = cc.blobs[i].end
Looked == ccq.op = "binarySearch"
\* the array order is (start ascending, end descending)
IsSorted == \A i, j \in BlobIdx : i < j =>
    \/ cc.blobs[i].start < cc.blobs[j].start
    \/ cc.blobs[i].start = cc.blobs[j].start /\ cc.blobs[i].end >= cc.blobs[j].end
\* no blob ends before an earlier blob of the array does (no nesting)
EndsAscending == \A i, j \in BlobIdx : i < j => cc.blobs[i].end <= cc.blobs[j].end
\* the last blob of the array that starts at or before a (0: none)
Preceding(a) ==
    LET at == {i \in BlobIdx : cc.blobs[i].start <= a} IN
    IF at = {} THEN 0 ELSE CHOOSE i \in at : \A j \in at : j <= i

\* C3: on any sorted cache, empty ones included, binarySearch returns a
\* non-null name: the name of a blob, or the cache's own name.
C3_BinarySearchNeverNull ==
    Looked =>
        /\ IsSorted
        /\ ccq.res # NULL
        /\ \/ ccq.res = cc.name
           \/ \E i \in BlobIdx : ccq.res = cc.blobs[i].name

\* C3 witness: a lookup on a cache with blobs fell back to the cache's name.
C3_Witness ==
    Looked /\ Len(cc.blobs) = MaxBlobs /\ ccq.res = cc.name

\* C4 (as stated): on any sorted cache, nested and overlapping blobs
\* included, an address that find locates in a blob is resolved by
\* binarySearch to a blob that holds it.
C4_ContainedAddressResolved ==
    Looked /\ find(cc, ccq.addr) # 0 =>
        \E i \in BlobIdx : Holds(i, ccq.addr) /\ ccq.res = cc.blobs[i].name

\* C4, without nesting: on a sorted cache in which no blob ends before an
\* earlier blob of the array does (blobs may overlap, not nest), an address
\* that find locates in a blob is resolved by binarySearch to a blob that
\* holds it.
C4_ContainedAddressResolvedIfNotNested ==
    Looked /\ EndsAscending /\ find(cc, ccq.addr) # 0 =>
        \E i \in BlobIdx : Holds(i, ccq.addr) /\ ccq.res = cc.blobs[i].name

\* C4 witness: two overlapping blobs hold the address and the lookup
\* returned the second one.
C4_Witness ==
    /\ Looked /\ EndsAscending /\ Len(cc.blobs) = MaxBlobs
    /\ \E i, j \in BlobIdx :
          /\ i < j /\ Holds(i, ccq.addr) /\ Holds(j, ccq.addr)
          /\ ccq.res = cc.blobs[j].name

\* C5 (as stated): an address equal to a blob's end returns that blob's
\* name; the address of a zero-length blob returns that blob's name; an
\* unmatched address whose preceding blob is neither returns the cache name.
C5_EndAndZeroLengthRules ==
    Looked =>
        /\ LET ending == {i \in BlobIdx : ~ZeroLength(i) /\ cc.blobs[i].end = ccq.addr} IN
              ending # {} => \E i \in ending : ccq.res = cc.blobs[i].name
        /\ LET zero == {i \in BlobIdx : ZeroLength(i) /\ cc.blobs[i].start = ccq.addr} IN
              zero # {} => \E i \in zero : ccq.res = cc.blobs[i].name
        /\ LET p == Preceding(ccq.addr) IN
              /\ find(cc, ccq.addr) = 0
              /\ (p # 0 => ~ZeroLength(p) /\ cc.blobs[p].end # ccq.addr)
              => ccq.res = cc.name

\* C5 (as amended): for an address that no blob holds, with p the last blob
\* of the sorted array that starts at or before it: binarySearch returns
\* p's name when p is zero-length or ends exactly at the address, and the
\* cache's own name otherwise (also when there is no p).
C5_UnmatchedAddressRule ==
    Looked /\ find(cc, ccq.addr) = 0 =>
        LET p == Preceding(ccq.addr) IN
        ccq.res = IF p # 0 /\ (ZeroLength(p) \/ cc.blobs[p].end = ccq.addr)
                  THEN cc.blobs[p].name
                  ELSE cc.name

\* C5 witness: the address is the end of a blob of positive length, no blob
\* holds it, and the lookup returned that blob's name.
C5_Witness ==
    /\ Looked /\ find(cc, ccq.addr) = 0
    /\ \E i \in BlobIdx :
          /\ ~ZeroLength(i) /\ cc.blobs[i].end = ccq.addr
          /\ ccq.res = cc.blobs[i].name

\* scenario S1: exactly two adjacent blobs of positive length, foo then bar
IsS1 ==
    /\ cc.phase = "sorted" /\ Len(cc.blobs) = 2
    /\ cc.blobs[1].start < cc.blobs[1].end
    /\ cc.blobs[1].end = cc.blobs[2].start
    /\ cc.blobs[2].start < cc.blobs[2].end

\* C6 (as stated): in S1 with foo = [a,b) and bar = [b,c), b-1 resolves to
\* foo, b to bar and c to the cache's own name.
C6_ScenarioS1 ==
    Looked /\ IsS1 =>
        /\ (ccq.addr = cc.blobs[1].end - 1 => ccq.res = cc.blobs[1].name)
        /\ (ccq.addr = cc.blobs[2].start => ccq.res = cc.blobs[2].name)
        /\ (ccq.addr = cc.blobs[2].end => ccq.res = cc.name)

\* C6 (as amended): in S1, b-1 resolves to foo, b to bar, and c, being
\* bar's end, to bar as well; addresses above c and below a resolve to the
\* cache's own name.
C6_ScenarioS1EndIsBar ==
    Looked /\ IsS1 =>
        /\ (ccq.addr = cc.blobs[1].end - 1 => ccq.res = cc.blobs[1].name)
        /\ (ccq.addr = cc.blobs[2].start => ccq.res = cc.blobs[2].name)
        /\ (ccq.addr = cc.blobs[2].end => ccq.res = cc.blobs[2].name)
        /\ (ccq.addr > cc.blobs[2].end \/ ccq.addr < cc.blobs[1].start
               => ccq.res = cc.name)

\* C6 witness: in S1 the lookup of c returned bar.
C6_Witness ==
    /\ Looked /\ IsS1
    /\ ccq.addr = cc.blobs[2].end /\ ccq.res = cc.blobs[2].name

\* blob i is zero-length and blob j, of positive length, starts where i is
Enclosed(i, j) ==
    /\ ZeroLength(i)
    /\ cc.blobs[j].start = cc.blobs[i].start
    /\ cc.blobs[j].end > cc.blobs[j].start

\* C7 (as stated): in every sorted cache the enclosing blob precedes the
\* zero-length blob that shares its start, and a lookup of that start
\* returns the name of an enclosing blob.
C7_EnclosingFirst ==
    cc.phase = "sorted" =>
        \A i, j \in BlobIdx : Enclosed(i, j) =>
            /\ j < i
            /\ (Looked /\ ccq.addr = cc.blobs[i].start =>
                    \E k \in BlobIdx : Enclosed(i, k) /\ ccq.res = cc.blobs[k].name)

\* C7, the part that holds: in every sorted cache the enclosing blob precedes the
\* zero-length blob that shares its start; a lookup of that start returns
\* the name of a blob that holds it or of a zero-length blob at it, and the
\* enclosing blob's name when the cache holds just the two blobs.
C7_EnclosingFirstInArray ==
    cc.phase = "sorted" =>
        \A i, j \in BlobIdx : Enclosed(i, j) =>
            /\ j < i
            /\ (Looked /\ ccq.addr = cc.blobs[i].start =>
                    /\ \E k \in BlobIdx :
                          /\ ccq.res = cc.blobs[k].name
                          /\ \/ Holds(k, ccq.addr)
                             \/ ZeroLength(k) /\ cc.blobs[k].start = ccq.addr
                    /\ (Len(cc.blobs) = 2 => ccq.res = cc.blobs[j].name))

\* C7 witness: scenario S2, the lookup of the shared start returned the
\* enclosing blob, which was added after the zero-length one.
C7_Witness ==
    /\ Looked /\ Len(cc.blobs) = 2
    /\ Enclosed(2, 1) /\ cc.blobs[1].name > cc.blobs[2].name
    /\ ccq.addr = cc.blobs[2].start /\ ccq.res = cc.blobs[1].name

\* CodeCache::contains
contains(c, address) == address >= c.min_address /\ address < c.max_address

\* the bounds hold blob i, and every address inside it
Bounded(c, i) ==
    /\ c.min_address <= c.blobs[i].start
    /\ c.blobs[i].end <= c.max_address
    /\ \A a \in Addresses :
          a >= c.blobs[i].start /\ a < c.blobs[i].end => contains(c, a)

\* C30: on a sorted cache min_address and max_address bound every blob,
\* and contains(a) is true for every address inside a blob, whether the
\* bounds came from the constructor, from add or from sort.
C30_BoundsCoverBlobs ==
    cc.phase = "sorted" => \A i \in BlobIdx : Bounded(cc, i)

\* C30, for a cache whose bounds are the sentinels when sort is called:
\* sort leaves min_address at or below every start, and max_address at or
\* above every end when no blob ends behind a later blob of the array.
C30_SortBoundsUnnested ==
    [][cc.phase = "building" /\ cc'.phase = "sorted"
          /\ cc.min_address = NO_MIN_ADDRESS /\ cc.max_address = NO_MAX_ADDRESS
       => /\ \A i \in 1 .. Len(cc'.blobs) : cc'.min_address <= cc'.blobs[i].start
          /\ (\A i, j \in 1 .. Len(cc'.blobs) :
                  i < j => cc'.blobs[i].end <= cc'.blobs[j].end)
             => \A i \in 1 .. Len(cc'.blobs) : Bounded(cc', i)]_vars

\* sort has taken both bounds from blobs that do not nest
C30_Witness ==
    /\ cc.phase = "sorted" /\ Len(cc.blobs) = 2
    /\ cc.blobs[1].end <= cc.blobs[2].start
    /\ cc.blobs[1].start < cc.blobs[1].end
    /\ cc.min_address = cc.blobs[1].start
    /\ cc.max_address = cc.blobs[2].end
    /\ \A i \in BlobIdx : Bounded(cc, i)

\* sort has taken max_address from the last blob, which lies inside the
\* first one: an address of the first blob is not contained
C30_NestedBlobBeyondMax ==
    /\ cc.phase = "sorted" /\ Len(cc.blobs) = 2
    /\ cc.blobs[1].start < cc.blobs[2].start
    /\ cc.blobs[2].end < cc.blobs[1].end
    /\ cc.min_address = cc.blobs[1].start
    /\ cc.max_address = cc.blobs[2].end
    /\ \E a \in Addresses : Holds(1, a) /\ ~contains(cc, a)

(***************************************************************************)
(*                           CODE CACHE ARRAY                              *)
(***************************************************************************)
\* Calls of CodeCacheArray::add explored.
MaxAdds == 4
\* MAX_NATIVE_LIBS (scaled down)
MAX_NATIVE_LIBS == 3
\* The CodeCache objects handed to add (their addresses).
LibPtrs == 1 .. 2

LibWrIdle == [pc |-> "idle", index |-> 0, lib |-> NULL]
LibRdIdle == [pc |-> "idle", count |-> 0, i |-> 0, lib |-> NULL]

\* CodeCacheArray::CodeCacheArray: _count(0), memset(_libs, 0, ...)
LibsInit ==
    /\ libs = [i \in 0 .. (MAX_NATIVE_LIBS - 1) |-> NULL]
    /\ libCount = 0
    /\ libOob = 0
    /\ libAdds = 0
    /\ libOrder = <<>>
    /\ libWr = LibWrIdle
    /\ libRd = LibRdIdle

\* (mutant: the new library lands on the last published slot)
addStoreOverLast(lib) ==
    /\ libWr.pc = "idle"
    /\ libAdds < MaxAdds
    /\ LET index == libCount IN
       /\ libWr' = [pc |-> "publish", index |-> index, lib |-> lib]
       /\ libs' = IF index > 0 THEN [libs EXCEPT ![index - 1] = lib] ELSE libs
       /\ libOob' = libOob
    /\ libAdds' = libAdds + 1
    /\ libOrder' = Append(libOrder, lib)
    /\ UNCHANGED <<libCount, libRd>>
    /\ LibFrame
\* CodeCacheArray::add, lines 186-187: index = _count; _libs[index] = lib.
\* The array has MAX_NATIVE_LIBS slots and add does not compare index with
\* it: a store at a higher index lands outside _libs.
addStore(lib) ==
    /\ libWr.pc = "idle"
    /\ libAdds < MaxAdds
    /\ LET index == libCount IN
       /\ libWr' = [pc |-> "publish", index |-> index, lib |-> lib]
       /\ IF index < MAX_NATIVE_LIBS
          THEN libs' = [libs EXCEPT ![index] = lib] /\ libOob' = libOob
          ELSE libs' = libs /\ libOob' = libOob + 1
    /\ libAdds' = libAdds + 1
    /\ libOrder' = Append(libOrder, lib)
    /\ UNCHANGED <<libCount, libRd>>
    /\ LibFrame

\* CodeCacheArray::add, line 188: the release store of index + 1 to _count
addPublish ==
    /\ libWr.pc = "publish"
    /\ libCount' = libWr.index + 1
    /\ libWr' = LibWrIdle
    /\ UNCHANGED <<libs, libOob, libAdds, libOrder, libRd>>
    /\ LibFrame

\* CodeCacheArray::count, the acquire load of a reader
count ==
    /\ libRd' = [pc |-> "counted", count |-> libCount, i |-> 0, lib |-> NULL]
    /\ UNCHANGED <<libs, libCount, libOob, libAdds, libOrder, libWr>>
    /\ LibFrame

\* what a load past the end of _libs can give
WildLoads == {NULL, Uninit} \cup LibPtrs

\* CodeCacheArray::operator[], for an index below the count the reader saw
\* (the loop of memoryUsage, lines 193-195).  operator[] does not compare
\* the index with MAX_NATIVE_LIBS either.
LibAt(i) ==
    /\ libRd.pc \in {"counted", "read"}
    /\ i < libRd.count
    /\ \E v \in (IF i < MAX_NATIVE_LIBS THEN {libs[i]} ELSE WildLoads) :
          libRd' = [libRd EXCEPT !.pc = "read", !.i = i, !.lib = v]
    /\ UNCHANGED <<libs, libCount, libOob, libAdds, libOrder, libWr>>
    /\ LibFrame

LibsNext ==
    \/ \E lib \in LibPtrs : addStore(lib)
    \/ addPublish
    \/ count
    \/ \E i \in 0 .. (MaxAdds - 1) : LibAt(i)

ReaderAt(i) == libRd.pc = "read" /\ libRd.i = i

\* C29: a reader that has observed count() = n finds in every slot below n
\* the library of the add call of that rank, never a null pointer.
C29_CountPublishesSlots ==
    \A i \in 0 .. (MaxAdds - 1) :
       ReaderAt(i) => libRd.lib # NULL /\ libRd.lib = libOrder[i + 1]

\* C29, for the counts the array can hold: every slot of _libs below the
\* published count holds the library of the add call of that rank, so a
\* reader finds it there.
C29_PublishedWithinCapacity ==
    /\ \A i \in 0 .. (MAX_NATIVE_LIBS - 1) :
          i < libCount => libs[i] # NULL /\ libs[i] = libOrder[i + 1]
    /\ \A i \in 0 .. (MAX_NATIVE_LIBS - 1) :
          ReaderAt(i) => libRd.lib # NULL /\ libRd.lib = libOrder[i + 1]

\* a reader that observed a count taken while the next add had stored its
\* slot but not published it reads the last published slot
C29_Witness ==
    /\ libWr.pc = "publish"
    /\ libWr.index = libRd.count
    /\ libRd.count = 2
    /\ ReaderAt(1)
    /\ libRd.lib = libOrder[2]
    /\ libOrder[1] # libOrder[2]

\* the count has passed MAX_NATIVE_LIBS and the reader has loaded the slot
\* behind the array, which does not hold the library added last
C29_ReadPastArray ==
    /\ libRd.count > MAX_NATIVE_LIBS
    /\ ReaderAt(MAX_NATIVE_LIBS)
    /\ libRd.lib # libOrder[MAX_NATIVE_LIBS + 1]

(***************************************************************************)
(* Liveness tracker (livenessTracker.cpp)                                  *)
(*                                                                         *)
(* Sizes are scaled: the literal 2048 of lines 162 and 225 is              *)
(* InitialTableCap, and heap sizes are counted in the same unit.           *)
(***************************************************************************)
MaxTracks == 2
MaxGC == 2

InitialTableCap == 1
MAX_TRACKING_TABLE_SIZE == 2

Trackers == {"t1", "t2"}
Flushers == {"f"}
Threads  == Trackers \cup Flushers

\* sampled objects; the weak global reference to object k is k as well
Objects == 1 .. MaxTracks

TableIdx == 0 .. (MAX_TRACKING_TABLE_SIZE - 1)

JavaVersions == {8, 11}
\* HeapUsage::get()._maxSize, -1 when unknown
MaxSizes == {-1, 2}
\* Runtime.maxMemory(), -1 when the JNI lookups of lines 139-143 fail
MaxMemories == {-1, 8}
\* args._memory
SamplingIntervals == {0, 2}

__min(a, b) == IF a < b THEN a ELSE b
max(a, b) == IF a < b THEN b ELSE a

\* a TrackingEntry (tid, ref, age, frames; time, alloc and ctx are written
\* and copied together with tid and are not modelled apart from it)
TrackingEntry(tid, ref, age, frames) ==
    [tid |-> tid, ref |-> ref, age |-> age, frames |-> frames]

UninitEntry == TrackingEntry(Uninit, Uninit, Uninit, Uninit)

ThIdle ==
    [pc |-> "idle", ref |-> NULL, idx |-> 0, retried |-> FALSE,
     current |-> 0, target |-> 0, ret |-> "idle"]

\* LivenessTracker::LivenessTracker: every field zero, _table NULL
LTInit ==
    /\ lt = [initialized |-> FALSE, max_cap |-> 0, cap |-> 0, size |-> 0,
             allocated |-> 0, gc_epoch |-> 0, last_gc_epoch |-> 0,
             stored_error |-> "OK"]
    /\ table = [i \in TableIdx |-> UninitEntry]
    /\ ltLock = 0
    /\ th = [t \in Threads |-> ThIdle]
    /\ heap = [alive |-> {}, weak |-> {}]
    /\ events = << >>
    /\ tracks = 0
    /\ walked = 0
    /\ born = [o \in Objects |-> 0]

\* the capacity max(2048, max_cap / 8) of line 162
EighthCap(floor, max_cap) == max(floor, max_cap \div 8)
\* lines 155-162 of initialize_table, with the two numbers of the source
\* as arguments: mts is MAX_TRACKING_TABLE_SIZE, floor is the 2048
SizeTable(mts, floor, max_heap, sampling_interval) ==
    LET required_table_capacity ==
            IF sampling_interval > 0 THEN max_heap \div sampling_interval
                                     ELSE max_heap
        max_cap == __min(mts, required_table_capacity)
    IN  [max_cap |-> max_cap, cap |-> EighthCap(floor, max_cap)]
\* line 225 of initialize: the capacity the table is allocated with
InitialCap(floor, max_cap) == __min(floor, max_cap)
\* line 295 of track
newcap(cap, max_cap) == __min(cap * 2, max_cap)

\* LivenessTracker::initialize_table: the fields it leaves behind, and
\* whether it returns an Error
initialize_table(t, maxSize, maxMemory, sampling_interval) ==
    LET max_heap == IF maxSize = -1 THEN maxMemory ELSE maxSize IN
    IF max_heap = -1
    THEN [err |-> TRUE, t |-> [t EXCEPT !.max_cap = 0]]
    ELSE LET sized == SizeTable(MAX_TRACKING_TABLE_SIZE, InitialTableCap,
                                max_heap, sampling_interval)
         IN [err |-> FALSE,
             t |-> [t EXCEPT !.max_cap = sized.max_cap, !.cap = sized.cap]]

\* LivenessTracker::initialize (malloc of line 226 returns a block); what
\* the call returns is _stored_error, which every path sets to Error::OK
initialize(java_version, maxSize, maxMemory, memory, classOk) ==
    /\ ~lt.initialized
    /\ LET t0 == [lt EXCEPT !.initialized = TRUE, !.stored_error = "OK"]
           r  == initialize_table(t0, maxSize, maxMemory, memory)
       IN
       IF java_version < 11
       THEN lt' = [t0 EXCEPT !.max_cap = 0] /\ table' = table
       ELSE IF r.err \/ ~classOk
       THEN lt' = [r.t EXCEPT !.max_cap = 0] /\ table' = table
       ELSE LET cap == InitialCap(InitialTableCap, r.t.max_cap) IN
            /\ lt' = [r.t EXCEPT !.size = 0, !.cap = cap,
                                 !.allocated = cap,
                                 !.gc_epoch = 0, !.last_gc_epoch = 0]
            /\ table' = [i \in TableIdx |-> UninitEntry]
    /\ UNCHANGED <<ltLock, th, heap, events, tracks, walked>>
    /\ LTFrame

\* LivenessTracker::onGC (GarbageCollectionFinish)
onGC ==
    /\ lt.initialized
    /\ lt.gc_epoch < MaxGC
    /\ lt' = [lt EXCEPT !.gc_epoch = @ + 1]
    /\ UNCHANGED <<table, ltLock, th, heap, events, tracks, walked>>
    /\ LTFrame

\* the collector reclaims a sampled object no thread holds any more: from
\* then on IsSameObject(ref, NULL) is true and NewLocalRef(ref) is NULL
Collect(o) ==
    /\ o \in heap.alive
    /\ \A t \in Threads : th[t].pc = "idle" \/ th[t].ref # o
    /\ heap' = [heap EXCEPT !.alive = @ \ {o}]
    /\ UNCHANGED <<lt, table, ltLock, th, events, tracks, walked>>
    /\ LTFrame

\* JNIEnv::IsSameObject(ref, NULL)
IsSameObject_NULL(ref) == ref \notin heap.alive

\* (mutant: lock() that does not wait for the shared holders)
CanLockOverReaders == ltLock <= 0
\* SpinLock (spinLock.h): lock() spins until it swaps 0 for 1
CanLock == ltLock = 0
\* SpinLock: tryLockShared / lockShared succeed unless held exclusively
CanLockShared == ltLock <= 0

\* a thread leaves track / flush_table
Return(t) == th' = [th EXCEPT ![t] = ThIdle]

(***************************************************************************)
(* LivenessTracker::track, one action per step that other threads can see  *)
(***************************************************************************)
\* a tracker that stores every sample
TrackingNeverDisabled == FALSE
\* line 239: we are not to store any objects
TrackingDisabled == lt.max_cap = 0

\* lines 239-249.  The sampled object is new; refOk: NewWeakGlobalRef
\* returned a reference.
track_begin(t, refOk) ==
    /\ th[t].pc = "idle"
    /\ tracks < MaxTracks
    /\ tracks' = tracks + 1
    /\ LET object == tracks + 1 IN
       IF TrackingDisabled \/ ~refOk
       THEN UNCHANGED <<th, heap>>
       ELSE /\ heap' = [heap EXCEPT !.alive = @ \cup {object},
                                    !.weak = @ \cup {object}]
            /\ th' = [th EXCEPT ![t] = [ThIdle EXCEPT !.pc = "retry", !.ref = object]]
    /\ UNCHANGED <<lt, table, ltLock, events, walked>>
    /\ LTFrame

\* lines 251-254: retry: if (!_table_lock.tryLockShared()) return;
track_tryLockShared(t) ==
    /\ th[t].pc = "retry"
    /\ IF CanLockShared
       THEN /\ ltLock' = ltLock - 1
            /\ th' = [th EXCEPT ![t].pc = "claim"]
       ELSE /\ ltLock' = ltLock
            /\ Return(t)
    /\ UNCHANGED <<lt, table, heap, events, tracks, walked>>
    /\ LTFrame

\* lines 258-262: the load of _table_size and the compare-and-swap that
\* succeeds; a failed compare-and-swap changes nothing and loops
track_claim(t) ==
    /\ th[t].pc = "claim"
    /\ LET idx == lt.size IN
       /\ lt' = IF idx < lt.cap THEN [lt EXCEPT !.size = idx + 1] ELSE lt
       /\ th' = [th EXCEPT ![t].idx = idx,
                           ![t].pc = IF idx < lt.cap THEN "fill" ELSE "unlock"]
    /\ UNCHANGED <<table, ltLock, heap, events, tracks, walked>>
    /\ LTFrame

\* lines 264-274: the stores into _table[idx]; outside the block _table
\* points to they land in memory the table does not own
track_fill(t) ==
    /\ th[t].pc = "fill"
    /\ LET idx == th[t].idx IN
       IF idx < lt.allocated
       THEN table' = [table EXCEPT ![idx] =
                         TrackingEntry(t, th[t].ref, 0, th[t].ref)]
       ELSE table' = table
    /\ born' = [born EXCEPT ![th[t].ref] = lt.gc_epoch]
    /\ th' = [th EXCEPT ![t].pc = "unlock"]
    /\ UNCHANGED <<lt, ltLock, heap, events, tracks, walked>>
    /\ FillFrame

\* line 276
track_unlockShared(t) ==
    /\ th[t].pc = "unlock"
    /\ ltLock' = ltLock + 1
    /\ th' = [th EXCEPT ![t].pc = "full"]
    /\ UNCHANGED <<lt, table, heap, events, tracks, walked>>
    /\ LTFrame

\* lines 278-284 and 315: _table_cap is read without the lock
track_full(t) ==
    /\ th[t].pc = "full"
    /\ IF th[t].idx = lt.cap /\ ~th[t].retried
       THEN th' = [th EXCEPT ![t].retried = TRUE,
                             ![t].pc = "cleanup_table", ![t].ret = "grow"]
       ELSE Return(t)
    /\ UNCHANGED <<lt, table, ltLock, heap, events, tracks, walked>>
    /\ LTFrame

\* line 286 (and 310, 315 when the table cannot grow)
track_grow(t) ==
    /\ th[t].pc = "grow"
    /\ IF lt.cap < lt.max_cap
       THEN th' = [th EXCEPT ![t].pc = "growLock"]
       ELSE Return(t)
    /\ UNCHANGED <<lt, table, ltLock, heap, events, tracks, walked>>
    /\ LTFrame

\* line 292
track_lock(t) ==
    /\ th[t].pc = "growLock"
    /\ CanLock
    /\ ltLock' = 1
    /\ th' = [th EXCEPT ![t].pc = "realloc"]
    /\ UNCHANGED <<lt, table, heap, events, tracks, walked>>
    /\ LTFrame

\* lines 295-304.  reallocOk: realloc returned a block; _table_cap is
\* assigned inside the argument of realloc, before its result is known.
track_realloc(t, reallocOk) ==
    /\ th[t].pc = "realloc"
    /\ LET nc == newcap(lt.cap, lt.max_cap) IN
       lt' = IF lt.cap # nc
             THEN [lt EXCEPT !.cap = nc,
                             !.allocated = IF reallocOk THEN nc ELSE @]
             ELSE lt
    /\ th' = [th EXCEPT ![t].pc = "growUnlock"]
    /\ UNCHANGED <<table, ltLock, heap, events, tracks, walked>>
    /\ LTFrame

\* lines 306-308: unlock, goto retry
track_unlock(t) ==
    /\ th[t].pc = "growUnlock"
    /\ ltLock' = 0
    /\ th' = [th EXCEPT ![t].pc = "retry"]
    /\ UNCHANGED <<lt, table, heap, events, tracks, walked>>
    /\ LTFrame

(***************************************************************************)
(* LivenessTracker::cleanup_table, called from track and flush_table       *)
(***************************************************************************)
\* line 36
cleanup_table_current(t) ==
    /\ th[t].pc = "cleanup_table"
    /\ th' = [th EXCEPT ![t].current = lt.last_gc_epoch, ![t].pc = "target"]
    /\ UNCHANGED <<lt, table, ltLock, heap, events, tracks, walked>>
    /\ LTFrame

\* line 37
cleanup_table_target(t) ==
    /\ th[t].pc = "target"
    /\ th' = [th EXCEPT ![t].target = lt.gc_epoch, ![t].pc = "cas"]
    /\ UNCHANGED <<lt, table, ltLock, heap, events, tracks, walked>>
    /\ LTFrame

\* (mutant: a plain store instead of the compare-and-swap)
cleanup_table_store(t) ==
    /\ th[t].pc = "cas"
    /\ IF th[t].target = lt.last_gc_epoch
       THEN /\ lt' = lt
            /\ th' = [th EXCEPT ![t].pc = th[t].ret, ![t].ret = "idle",
                                ![t].current = 0, ![t].target = 0]
       ELSE /\ lt' = [lt EXCEPT !.last_gc_epoch = th[t].target]
            /\ th' = [th EXCEPT ![t].pc = "lock"]
    /\ UNCHANGED <<table, ltLock, heap, events, tracks, walked>>
    /\ LTFrame
\* lines 39-42: return unless this thread moves _last_gc_epoch to target
cleanup_table_cas(t) ==
    /\ th[t].pc = "cas"
    /\ IF th[t].target = lt.last_gc_epoch \/ lt.last_gc_epoch # th[t].current
       THEN /\ lt' = lt
            /\ th' = [th EXCEPT ![t].pc = th[t].ret, ![t].ret = "idle",
                                ![t].current = 0, ![t].target = 0]
       ELSE /\ lt' = [lt EXCEPT !.last_gc_epoch = th[t].target]
            /\ th' = [th EXCEPT ![t].pc = "lock"]
    /\ UNCHANGED <<table, ltLock, heap, events, tracks, walked>>
    /\ LTFrame

\* line 49
cleanup_table_lock(t) ==
    /\ th[t].pc = "lock"
    /\ CanLock
    /\ ltLock' = 1
    /\ th' = [th EXCEPT ![t].pc = "walk"]
    /\ UNCHANGED <<lt, table, heap, events, tracks, walked>>
    /\ LTFrame

\* lines 53-64, from entry i on: the table, the weak references left and
\* newsz once the loop ends
RECURSIVE cleanup_table_loop(_, _, _, _, _)
cleanup_table_loop(tab, weak, i, newsz, epoch_diff) ==
    IF i >= lt.size
    THEN [table |-> tab, weak |-> weak, newsz |-> newsz]
    ELSE IF ~IsSameObject_NULL(tab[i].ref)
    THEN LET aged   == [tab EXCEPT ![i].age = @ + epoch_diff]
             copied == [aged EXCEPT ![newsz] = aged[i]]
             nulled == [copied EXCEPT ![i].ref = NULL]
         IN cleanup_table_loop(nulled, weak, i + 1, newsz + 1, epoch_diff)
    ELSE cleanup_table_loop([tab EXCEPT ![i].ref = NULL],
                            weak \ {tab[i].ref}, i + 1, newsz, epoch_diff)

\* lines 50-66, under the exclusive lock
cleanup_table_walk(t) ==
    /\ th[t].pc = "walk"
    /\ LET epoch_diff == th[t].target - th[t].current
           r == cleanup_table_loop(table, heap.weak, 0, 0, epoch_diff)
       IN
       /\ table' = r.table
       /\ heap' = [heap EXCEPT !.weak = r.weak]
       /\ lt' = [lt EXCEPT !.size = r.newsz]
       /\ walked' = walked + epoch_diff
    /\ th' = [th EXCEPT ![t].pc = "unlock_table", ![t].current = 0, ![t].target = 0]
    /\ UNCHANGED <<ltLock, events, tracks>>
    /\ LTFrame

\* line 68
cleanup_table_unlock(t) ==
    /\ th[t].pc = "unlock_table"
    /\ ltLock' = 0
    /\ th' = [th EXCEPT ![t].pc = th[t].ret, ![t].ret = "idle"]
    /\ UNCHANGED <<lt, table, heap, events, tracks, walked>>
    /\ LTFrame

(***************************************************************************)
(* LivenessTracker::flush_table                                            *)
(***************************************************************************)
\* line 84
flush_table_begin(t) ==
    /\ th[t].pc = "idle"
    /\ lt.initialized
    /\ th' = [th EXCEPT ![t].pc = "cleanup_table", ![t].ret = "lockShared"]
    /\ UNCHANGED <<lt, table, ltLock, heap, events, tracks, walked>>
    /\ LTFrame

\* line 86
flush_table_lockShared(t) ==
    /\ th[t].pc = "lockShared"
    /\ CanLockShared
    /\ ltLock' = ltLock - 1
    /\ th' = [th EXCEPT ![t].pc = "loop"]
    /\ UNCHANGED <<lt, table, heap, events, tracks, walked>>
    /\ LTFrame

\* lines 89-111, from entry i on: the events recorded.  NewLocalRef of a
\* never-written ref is undefined: garbage tells whether it yields an object.
RECURSIVE flush_table_loop(_, _)
flush_table_loop(i, garbage) ==
    IF i >= lt.size
    THEN << >>
    ELSE LET e == table[i]
             ref == IF e.ref = Uninit THEN garbage ELSE e.ref \in heap.alive
         IN (IF ref THEN << [tid |-> e.tid, age |-> e.age, frames |-> e.frames] >>
                    ELSE << >>)
            \o flush_table_loop(i + 1, garbage)

flush_table_walk(t, garbage) ==
    /\ th[t].pc = "loop"
    /\ garbage => \E i \in TableIdx : i < lt.size /\ table[i].ref = Uninit
    /\ events' = flush_table_loop(0, garbage)
    /\ th' = [th EXCEPT ![t].pc = "unlockShared"]
    /\ UNCHANGED <<lt, table, ltLock, heap, tracks, walked>>
    /\ LTFrame

\* line 113; the events have gone to the recorder
flush_table_unlockShared(t) ==
    /\ th[t].pc = "unlockShared"
    /\ ltLock' = ltLock + 1
    /\ events' = << >>
    /\ Return(t)
    /\ UNCHANGED <<lt, table, heap, tracks, walked>>
    /\ LTFrame

LTNext ==
    \/ \E v \in JavaVersions, ms \in MaxSizes, mm \in MaxMemories,
          m \in SamplingIntervals, classOk \in BOOLEAN :
          initialize(v, ms, mm, m, classOk)
    \/ onGC
    \/ \E o \in Objects : Collect(o)
    \/ \E t \in Trackers, refOk \in BOOLEAN : track_begin(t, refOk)
    \/ \E t \in Trackers : track_tryLockShared(t)
    \/ \E t \in Trackers : track_claim(t)
    \/ \E t \in Trackers : track_fill(t)
    \/ \E t \in Trackers : track_unlockShared(t)
    \/ \E t \in Trackers : track_full(t)
    \/ \E t \in Trackers : track_grow(t)
    \/ \E t \in Trackers : track_lock(t)
    \/ \E t \in Trackers, reallocOk \in BOOLEAN : track_realloc(t, reallocOk)
    \/ \E t \in Trackers : track_unlock(t)
    \/ \E t \in Threads : cleanup_table_current(t)
    \/ \E t \in Threads : cleanup_table_target(t)
    \/ \E t \in Threads : cleanup_table_cas(t)
    \/ \E t \in Threads : cleanup_table_lock(t)
    \/ \E t \in Threads : cleanup_table_walk(t)
    \/ \E t \in Threads : cleanup_table_unlock(t)
    \/ \E t \in Flushers : flush_table_begin(t)
    \/ \E t \in Flushers : flush_table_lockShared(t)
    \/ \E t \in Flushers, garbage \in BOOLEAN : flush_table_walk(t, garbage)
    \/ \E t \in Flushers : flush_table_unlockShared(t)

\* C9: in every reachable state of the tracker, whatever the outcome of
\* initialize and whatever track, growth, cleanup_table and flush have done,
\* _table_size <= _table_cap <= _table_max_cap.
C9_SizeCapMaxCap ==
    /\ lt.size <= lt.cap
    /\ lt.cap <= lt.max_cap

\* C10: right after the walk of cleanup_table no entry below _table_size
\* has a dead referent: each holds a non-null weak reference to an object
\* that is alive (IsSameObject(ref, NULL) is false).
C10_NoDeadEntryAfterCleanup ==
    [][(\E t \in Threads : th[t].pc = "walk" /\ th'[t].pc = "unlock_table")
         => \A i \in TableIdx :
               i < lt'.size => table'[i].ref # NULL /\ table'[i].ref \in heap'.alive]_vars

\* C11: the walk of flush_table emits exactly one event for every tracked
\* entry below _table_size whose referent is alive at that moment (entries
\* that survived earlier walks of cleanup_table included) and none for an
\* entry whose referent is dead.  An entry is told by the frames it owns.
C11_FlushOneEventPerLiveEntry ==
    [][(\E t \in Flushers : th[t].pc = "loop" /\ th'[t].pc = "unlockShared")
         => \A o \in Objects :
               Cardinality({j \in 1 .. Len(events') : events'[j].frames = o})
                 = IF /\ o \in heap.alive
                      /\ \E i \in TableIdx : i < lt.size /\ table[i].frames = o
                   THEN 1 ELSE 0]_vars

\* the threads that won the compare-and-swap and have not walked yet
PendingWalks == {t \in Threads : th[t].pc \in {"lock", "walk"}}

RECURSIVE SumDiff(_)
SumDiff(S) ==
    IF S = {} THEN 0
    ELSE LET t == CHOOSE x \in S : TRUE
         IN (th[t].target - th[t].current) + SumDiff(S \ {t})

C12_EpochState ==
    /\ lt.last_gc_epoch <= lt.gc_epoch
    /\ walked + SumDiff(PendingWalks) = lt.last_gc_epoch
    /\ \A t \in PendingWalks :
          th[t].current < th[t].target /\ th[t].target <= lt.last_gc_epoch

C12_EpochStep ==
    /\ lt'.gc_epoch >= lt.gc_epoch
    /\ lt'.last_gc_epoch >= lt.last_gc_epoch
    /\ \A t \in Threads :
          /\ th'[t].pc = "lock" /\ th[t].pc # "lock"
               => /\ th[t].pc = "cas"
                  /\ lt.last_gc_epoch = th[t].current
                  /\ lt'.last_gc_epoch = th[t].target
          /\ th[t].pc = "cas" /\ th'[t].pc \notin {"cas", "lock"}
               => table' = table /\ lt' = lt /\ walked' = walked
          /\ th'[t].pc = "walk" => th[t].pc \in {"lock", "walk"}
    /\ walked' # walked =>
          \E t \in Threads : th[t].pc = "walk" /\ th'[t].pc = "unlock_table"

\* C12: for every interleaving of onGC and cleanup_table calls, _gc_epoch
\* and _last_gc_epoch never decrease, _last_gc_epoch <= _gc_epoch, only a
\* thread that won the compare-and-swap on _last_gc_epoch walks the table,
\* the epoch_diff of the walks done and of the walks still to come add up
\* to _last_gc_epoch, and a call that sees no new epoch or loses the
\* compare-and-swap leaves the table as it was.
C12_EpochsWalkedOnce == [](C12_EpochState) /\ [][C12_EpochStep]_vars

\* C12 witness: both epochs have been walked (by two walks or by one), and
\* a thread is about to lose the compare-and-swap.
C12_Witness ==
    /\ walked = MaxGC
    /\ lt.last_gc_epoch = MaxGC
    /\ \E t \in Threads : th[t].pc = "cas" /\ th[t].current # lt.last_gc_epoch

\* C13: every weak reference track created and nobody released is held by
\* a running call of track or stored in an entry below _table_size.
C13_WeakRefConsumed ==
    \A r \in heap.weak :
        \/ \E t \in Trackers : th[t].pc # "idle" /\ th[t].ref = r
        \/ \E i \in TableIdx : i < lt.size /\ table[i].ref = r

\* C14: track, having found the table full and run cleanup_table, gives
\* the sample up only when there is still no free slot and no room to grow
\* (otherwise it retries the insertion), and returns after the second
\* insertion attempt.
C14_RetryAfterCleanup ==
    [][\A t \in Trackers :
         /\ th[t].pc = "grow" /\ th'[t].pc = "idle"
              => lt.size = lt.cap /\ lt.cap = lt.max_cap
         /\ th[t].pc = "full" /\ th[t].retried => th'[t].pc \in {"full", "idle"}]_vars

(***************************************************************************)
(*                          FLIGHT RECORDER                                *)
(* FlightRecorder owns one Recording (_rec) and guards it with _rec_lock.  *)
(* The file is a sequence of cells; a cell stands for one field group of   *)
(* the format (the 68-byte chunk header is five cells), and every offset   *)
(* and size of the model is counted in cells.                              *)
(***************************************************************************)
\* OS::micros() takes the values 0 .. MaxTime.
MaxTime == 2
\* Calls of the FlightRecorder entry points explored in one run.
MaxRecOps == 4
\* write / pwrite calls of one run that fail or are short.
MaxFaults == 1
\* Call traces collectTraces returns to one constant pool.
MaxTraces == 1

\* 2^64, the modulus of the u64 fields, scaled down.
U64 == 64
\* MAX_JLONG = 2^63 - 1, scaled with U64.
MAX_JLONG == 31
\* the floor of _chunk_size (262144 bytes), in cells
MinChunkSize == 7
\* the floor of _chunk_time (5 seconds), in clock steps
MinChunkTime == 2
\* the factor from seconds to the unit of OS::micros() (1000000), scaled
MicrosPerSec == 1
\* BUFFER_LIMIT of _cpu_monitor_buf, in cells
BUFFER_LIMIT == 2
\* the step of _base_id (0x1000000), scaled down; a power of two
ID_STEP == 8
\* cells of the chunk header (68 bytes: magic, version, chunk size,
\* offsets and times, features); also the meta_offset finishChunk stores
HEADER_SIZE == 5
\* offset (8 bytes) and length (56 bytes) of the header tail finishChunk patches
TailOffset == 2
TailLen == 2
\* length of the constant pool size slot (5 bytes)
CpoolSlotLen == 1
\* the chunk size writeHeader stores (1 GiB, for readers to skip the chunk)
InitialChunkSize == 99

RecTimer   == "timer"
RecLogger  == "logger"
RecControl == "control"
RecThreads == {RecTimer, RecLogger, RecControl}
Times      == 0 .. MaxTime
\* jmethodID values
Methods    == {1, 2}
\* values of args._chunk_size and args._chunk_time
ChunkSizeArgs == {0, 1}
ChunkTimeArgs == {0, 1}

\* Bitwise or of two naturals (the | of writeMethods and its neighbours).
RECURSIVE BitOr(_, _)
BitOr(a, b) ==
    IF a = 0 THEN b
    ELSE IF b = 0 THEN a
    ELSE (IF (a % 2) + (b % 2) > 0 THEN 1 ELSE 0) + (2 * BitOr(a \div 2, b \div 2))

Cell(t, v) == [t |-> t, v |-> v]
\* what a read finds where nothing was ever written
Hole == Cell("hole", <<>>)

\* writeHeader: the 68 bytes at the start of a chunk
writeHeader ==
    << Cell("magic", <<>>), Cell("version", <<2, 0>>),
       Cell("chunk_size", <<InitialChunkSize>>), Cell("offsets", <<0, 0>>),
       Cell("features", <<1>>) >>
\* writeMetadata and the settings and system events that follow it
writeMetadata == << Cell("metadata", <<>>) >>

\* The results write(2) / pwrite(2) can give for n cells: all of them, a
\* shorter prefix, or an error.
WriteResults(n) == IF n = 0 THEN {0} ELSE {-1} \cup (1 .. n)
Fault(result, n) == IF result = n THEN 0 ELSE 1

\* pwrite(_fd, data, |data|, off): the file after the call
pwrite(f, data, off) ==
    LET newLen == IF Len(data) = 0 THEN Len(f) ELSE max(Len(f), off + Len(data))
    IN  [i \in 1 .. newLen |->
            IF i > off /\ i <= off + Len(data) THEN data[i - off]
            ELSE IF i <= Len(f) THEN f[i]
            ELSE Hole]

\* the leading cells a call with this result has transferred
Written(data, result) == SubSeq(data, 1, IF result > 0 THEN result ELSE 0)

\* Recording::flush(buf) on the state s = [rec, file, pos]: write at the
\* file offset, count the bytes if the result is positive, reset the buffer.
flush(s, data, result) ==
    [rec  |-> IF result > 0
              THEN [s.rec EXCEPT !.bytes_written = (@ + result) % U64]
              ELSE s.rec,
     file |-> pwrite(s.file, Written(data, result), s.pos),
     pos  |-> s.pos + (IF result > 0 THEN result ELSE 0)]

\* ---- Lookup and the constant pool
NoMethod == [key |-> 0, mark |-> FALSE]
\* std::map::size() of the method map
MapSize(map) == Cardinality({m \in Methods : map[m].key # 0})

\* Lookup::resolveMethod: operator[] inserts the method, a new entry gets
\* the size of the map as its key, and the entry is marked.
resolveMethod(map, m) ==
    LET first_time == map[m].key = 0
        size == MapSize(map) + (IF first_time THEN 1 ELSE 0)
    IN  [map EXCEPT ![m] = [key  |-> IF first_time THEN size ELSE @.key,
                            mark |-> TRUE]]

\* the frames writeStackTraces resolves for one trace, in order: the last
\* frame first, then every frame
FramesResolved(trace) ==
    IF Len(trace) > 0 THEN <<trace[Len(trace)]>> \o trace ELSE <<>>

RECURSIVE resolveAll(_, _)
resolveAll(map, ms) ==
    IF ms = <<>> THEN map ELSE resolveAll(resolveMethod(map, Head(ms)), Tail(ms))

RECURSIVE FlattenTraces(_)
FlattenTraces(traces) ==
    IF traces = <<>> THEN <<>>
    ELSE FramesResolved(Head(traces)) \o FlattenTraces(Tail(traces))

\* call traces: sequences of frames (method ids)
Traces == {<<1>>, <<2>>, <<1, 2>>}
RECURSIVE SeqsUpTo(_, _)
SeqsUpTo(S, n) ==
    IF n = 0 THEN {<<>>}
    ELSE SeqsUpTo(S, n - 1) \cup
         {Append(s, x) : s \in {q \in SeqsUpTo(S, n - 1) : Len(q) = n - 1}, x \in S}
\* what collectTraces can hand to writeStackTraces
TraceStores == SeqsUpTo(Traces, MaxTraces)
MethodsOf(traces) ==
    {m \in Methods : \E i \in 1 .. Len(traces) :
                        \E j \in 1 .. Len(traces[i]) : traces[i][j] = m}

\* The ids a Dictionary gives: the ordinal of the string plus the place
\* `lay` its table put it at.  Strings of _symbols: the name of method m,
\* the signature the methods share, the name of class c, the name of the
\* package; _packages holds the one package of the classes.
DictLayouts    == {0, ID_STEP}
NameOf(m)      == m
SigOfAll       == 3
ClassNameOf(c) == 3 + c
PackageName    == 6
PackageOf(c)   == 1
ClassOf(m)     == m
lookup(lay, s) == lay + s

\* writeStackTraces: every frame of every trace is resolved (which marks
\* its method) and written with the key of its method.
writeStackTraces(map, traces) ==
    LET marked == resolveAll(map, FlattenTraces(traces))
    IN  [map    |-> marked,
         frames |-> [i \in 1 .. Len(traces) |->
                       [j \in 1 .. Len(traces[i]) |-> marked[traces[i][j]].key]]]

\* the second loop of writeMethods, from method m on in the order of the
\* map: a marked entry is unmarked and written
RECURSIVE MethodRecords(_, _, _, _)
MethodRecords(map, m, base_id, lay) ==
    IF m \notin Methods THEN <<>>
    ELSE (IF map[m].mark
          THEN << [key    |-> map[m].key,
                   method |-> m,
                   class  |-> ClassOf(m),
                   name   |-> BitOr(lookup(lay, NameOf(m)), base_id),
                   sig    |-> BitOr(lookup(lay, SigOfAll), base_id)] >>
          ELSE <<>>) \o MethodRecords(map, m + 1, base_id, lay)

\* the second loop of writeMethods without line 1085
KeepMarks(map) == map
\* the marks after the second loop of writeMethods
ClearMarks(map) == [m \in Methods |-> [map[m] EXCEPT !.mark = FALSE]]

\* writeMethods: the count of the marked entries, then their records
writeMethods(map, base_id, lay) ==
    [count   |-> Cardinality({m \in Methods : map[m].mark}),
     records |-> MethodRecords(map, 1, base_id, lay),
     map     |-> ClearMarks(map)]

\* writeClasses: every class of the class map, its id as the map gives it
writeClasses(classes, base_id, lay) ==
    {[id      |-> c,
      name    |-> BitOr(lookup(lay, ClassNameOf(c)), base_id),
      package |-> BitOr(lookup(lay, PackageOf(c)), base_id)] : c \in classes}

\* writePackages: every package getPackage has looked up for a class
writePackages(classes, base_id, lay) ==
    {[id   |-> BitOr(lookup(lay, PackageOf(c)), base_id),
      name |-> BitOr(lookup(lay, PackageName), base_id)] : c \in classes}

\* writeSymbols: every string _symbols has been asked for by this Lookup
writeSymbols(seen, classes, base_id, lay) ==
    {BitOr(lookup(lay, s), base_id) :
        s \in {NameOf(m) : m \in seen}
                \cup (IF seen = {} THEN {} ELSE {SigOfAll})
                \cup {ClassNameOf(c) : c \in classes}
                \cup (IF classes = {} THEN {} ELSE {PackageName})}

\* writeCpool with a fresh Lookup, for the traces collectTraces returns and
\* the layout of the dictionaries of the Lookup: the method map and the
\* class map afterwards, and the pool put into the buffer
writeCpool(map, classes, base_id, traces, lay) ==
    LET st       == writeStackTraces(map, traces)
        seen     == {m \in Methods : st.map[m].mark}
        classes2 == classes \cup {ClassOf(m) : m \in seen}
        wm       == writeMethods(st.map, base_id, lay)
    IN  [map     |-> wm.map,
         classes |-> classes2,
         pool    |-> [base       |-> base_id,
                      lay        |-> lay,
                      frames     |-> st.frames,
                      referenced |-> MethodsOf(traces),
                      count      |-> wm.count,
                      methods    |-> wm.records,
                      classes    |-> writeClasses(classes2, base_id, lay),
                      packages   |-> writePackages(classes2, base_id, lay),
                      symbols    |-> writeSymbols(seen, classes2, base_id, lay)]]

\* ---- Recording
NoRecording ==
    [chunk_start |-> 0, start_time |-> 0, stop_time |-> 0, base_id |-> 0,
     bytes_written |-> 0, chunk_size |-> 0, chunk_time |-> 0,
     cpu_monitor_buf |-> 0, method_map |-> [m \in Methods |-> NoMethod]]

\* the limits the constructor derives from the arguments
effective_chunk_size(a) ==
    IF a <= 0 THEN MAX_JLONG ELSE IF a < MinChunkSize THEN MinChunkSize ELSE a
effective_chunk_time(a) ==
    IF a <= 0 THEN MAX_JLONG
    ELSE ((IF a < MinChunkTime THEN MinChunkTime ELSE a) * MicrosPerSec) % U64

\* Recording::Recording on the file f: the chunk starts at the end of the
\* file, and the header and the metadata go out in one flush.
Recording(f, args, now, result) ==
    flush([rec  |-> [NoRecording EXCEPT
                        !.chunk_start = Len(f),
                        !.start_time  = now,
                        !.chunk_size  = effective_chunk_size(args[1]),
                        !.chunk_time  = effective_chunk_time(args[2])],
           file |-> f,
           pos  |-> Len(f)],
          writeHeader \o writeMetadata, result)

\* Recording::needSwitchChunk, in u64 arithmetic
needSwitchChunk(r, wall_time) ==
    \/ r.bytes_written >= r.chunk_size
    \/ (wall_time - r.start_time) % U64 >= r.chunk_time

\* ---- threads
RIdle == [pc |-> "idle", wall_time |-> 0, need |-> FALSE,
          end_recording |-> FALSE, cont |-> "idle", caller |-> "idle",
          cpool_offset |-> 0, chunk_end |-> 0, error |-> FALSE]

RecInit ==
    /\ recLock = 1
    /\ recPtr = NULL
    /\ recArgs = <<0, 0>>
    /\ rec = NoRecording
    /\ file = <<>>
    /\ filePos = 0
    /\ clock = 0
    /\ rth = [t \in RecThreads |-> RIdle]
    /\ closed = <<>>
    /\ pools = <<>>
    /\ classMap = {}
    /\ ioFaults = 0
    /\ recOps = 0
    /\ target = <<>>

\* OS::micros() moves on
micros ==
    /\ clock < MaxTime
    /\ clock' = clock + 1
    /\ UNCHANGED <<recLock, recPtr, recArgs, rec, file, filePos, rth, closed,
                   pools, classMap, ioFaults, recOps>>
    /\ RecFrame

\* the part of the file and of the bookkeeping a new Recording starts from
Reopened(reset) ==
    [file |-> IF reset THEN <<>> ELSE file,
     closed |-> IF reset THEN <<>> ELSE closed]

\* FlightRecorder::start: without a file name the call returns an error at
\* once (line 1315); otherwise newRecording, and the lock is released
\* whatever newRecording returned.  The profiler starts a recorder that has
\* no recording.  `error` keeps what the call returned.
start(args, named, reset, openOk, result) ==
    /\ rth[RecControl].pc = "idle"
    /\ recPtr = NULL
    /\ recOps < MaxRecOps
    /\ recOps' = recOps + 1
    /\ rth' = [rth EXCEPT ![RecControl].error = ~(named /\ openOk)]
    /\ IF ~named
       THEN /\ ~reset /\ ~openOk /\ result = -1
            /\ UNCHANGED <<recLock, recArgs, recPtr, rec, file, filePos, closed,
                           pools, ioFaults>>
       ELSE /\ recArgs' = args
            /\ IF openOk
               THEN LET s == Recording(Reopened(reset).file, args, clock, result)
                    IN  /\ ioFaults + Fault(result, HEADER_SIZE + 1) <= MaxFaults
                        /\ ioFaults' = ioFaults + Fault(result, HEADER_SIZE + 1)
                        /\ recPtr' = 1
                        /\ rec' = s.rec
                        /\ file' = s.file
                        /\ filePos' = s.pos
                        /\ closed' = Reopened(reset).closed
                        /\ pools' = <<>>
               ELSE /\ result = -1
                    /\ UNCHANGED <<recPtr, rec, file, filePos, closed, pools,
                                   ioFaults>>
            /\ recLock' = recLock - 1
    /\ UNCHANGED <<clock, classMap>>
    /\ RecFrame

\* FlightRecorder::stop, up to the lock
stop ==
    /\ rth[RecControl].pc = "idle"
    /\ recPtr # NULL
    /\ recOps < MaxRecOps
    /\ recOps' = recOps + 1
    /\ rth' = [rth EXCEPT ![RecControl].pc = "stop_lock"]
    /\ UNCHANGED <<recLock, recPtr, recArgs, rec, file, filePos, clock, closed,
                   pools, classMap, ioFaults>>
    /\ RecFrame

\* _rec_lock.lock() of stop; delete _rec starts with finishChunk(true)
stop_lock ==
    /\ rth[RecControl].pc = "stop_lock"
    /\ recLock = 0
    /\ recLock' = 1
    /\ rth' = [rth EXCEPT ![RecControl].pc = "finishChunk",
                          ![RecControl].end_recording = TRUE,
                          ![RecControl].cont = "close"]
    /\ UNCHANGED <<recPtr, recArgs, rec, file, filePos, clock, closed, pools,
                   classMap, ioFaults, recOps>>
    /\ RecFrame

\* Recording::finishChunk up to chunk_end (lines 519-539): the buffers are
\* flushed, the constant pool is written behind them.
finishChunk(r1, r2, r3, traces, lay) ==
    LET t    == rth[RecControl]
        cpu  == [i \in 1 .. rec.cpu_monitor_buf |-> Cell("cpu_load", <<>>)]
        info == IF t.end_recording THEN <<Cell("recording_info", <<>>)>> ELSE <<>>
        cp   == writeCpool(rec.method_map, classMap, rec.base_id, traces, lay)
        body == <<Cell("cpool_size", <<0>>), Cell("cpool", <<>>)>>
        s0   == [rec  |-> [rec EXCEPT !.cpu_monitor_buf = 0,
                                      !.stop_time = clock,
                                      !.method_map = cp.map],
                 file |-> file, pos |-> filePos]
        s1   == flush(s0, cpu, r1)
        s2   == flush(s1, info, r2)
        s3   == flush(s2, body, r3)
        faults == Fault(r1, Len(cpu)) + Fault(r2, Len(info)) + Fault(r3, Len(body))
    IN  /\ t.pc = "finishChunk"
        /\ r1 \in WriteResults(Len(cpu))
        /\ r2 \in WriteResults(Len(info))
        /\ ioFaults + faults <= MaxFaults
        /\ ioFaults' = ioFaults + faults
        /\ rec' = s3.rec
        /\ file' = s3.file
        /\ filePos' = s3.pos
        /\ classMap' = cp.classes
        /\ pools' = Append(pools, cp.pool)
        /\ rth' = [rth EXCEPT ![RecControl].pc = "patch",
                              ![RecControl].cpool_offset = s2.pos,
                              ![RecControl].chunk_end = s3.pos]
        /\ UNCHANGED <<recLock, recPtr, recArgs, clock, closed, recOps>>
        /\ RecFrame

\* the cells finishChunk patches into the header (line 553-559)
HeaderTail(chunk_end, cpool_offset) ==
    << Cell("chunk_size", <<chunk_end - rec.chunk_start>>),
       Cell("offsets", <<cpool_offset - rec.chunk_start, HEADER_SIZE>>) >>

\* a patch that starts at the magic
TailAtStart(chunk_start) == chunk_start
\* where the header tail goes: behind magic and version
TailAt(chunk_start) == chunk_start + TailOffset

\* the chunks closed so far, with the chunk [from, to) closed (again)
Closed(from, to) ==
    IF closed # <<>> /\ closed[Len(closed)].start = from
    THEN [closed EXCEPT ![Len(closed)].end = to]
    ELSE Append(closed, [start |-> from, end |-> to])

\* the rest of finishChunk (lines 541-566): the two pwrite calls, whose
\* results are dropped
finishChunk_patch(p1, p2) ==
    LET t    == rth[RecControl]
        slot == <<Cell("cpool_size", <<t.chunk_end - t.cpool_offset>>)>>
        tail == HeaderTail(t.chunk_end, t.cpool_offset)
        f1   == pwrite(file, Written(slot, p1), t.cpool_offset)
        f2   == pwrite(f1, Written(tail, p2), TailAt(rec.chunk_start))
        faults == Fault(p1, CpoolSlotLen) + Fault(p2, TailLen)
    IN  /\ t.pc = "patch"
        /\ ioFaults + faults <= MaxFaults
        /\ ioFaults' = ioFaults + faults
        /\ file' = f2
        /\ closed' = Closed(rec.chunk_start, t.chunk_end)
        /\ rth' = [rth EXCEPT ![RecControl].pc = t.cont,
                              ![RecControl].cont = "idle",
                              ![RecControl].end_recording = FALSE,
                              ![RecControl].cpool_offset = 0]
        /\ UNCHANGED <<recLock, recPtr, recArgs, rec, filePos, clock, pools,
                       classMap, recOps>>
        /\ RecFrame

\* the end of ~Recording in stop: close(_fd), then _rec = NULL.  The lock
\* stays held.
stop_close ==
    /\ rth[RecControl].pc = "close"
    /\ recPtr' = NULL
    /\ rec' = NoRecording
    /\ filePos' = 0
    /\ rth' = [rth EXCEPT ![RecControl] = RIdle]
    /\ UNCHANGED <<recLock, recArgs, file, clock, closed, pools, classMap,
                   ioFaults, recOps>>
    /\ RecFrame

\* FlightRecorder::flush, up to the lock; also the call from dump
flush_begin ==
    /\ rth[RecControl].pc = "idle"
    /\ recPtr # NULL
    /\ recOps < MaxRecOps
    /\ recOps' = recOps + 1
    /\ rth' = [rth EXCEPT ![RecControl].pc = "flush_lock"]
    /\ UNCHANGED <<recLock, recPtr, recArgs, rec, file, filePos, clock, closed,
                   pools, classMap, ioFaults>>
    /\ RecFrame

\* _rec_lock.lock() of flush; switchChunk starts with finishChunk()
flush_lock ==
    /\ rth[RecControl].pc = "flush_lock"
    /\ recLock = 0
    /\ recLock' = 1
    /\ rth' = [rth EXCEPT ![RecControl].pc = "finishChunk",
                          ![RecControl].end_recording = FALSE,
                          ![RecControl].cont = "switchChunk"]
    /\ UNCHANGED <<recPtr, recArgs, rec, file, filePos, clock, closed, pools,
                   classMap, ioFaults, recOps>>
    /\ RecFrame

\* Recording::switchChunk after finishChunk has returned chunk_end
switchChunk(result) ==
    LET t  == rth[RecControl]
        s  == flush([rec  |-> [rec EXCEPT !.chunk_start = t.chunk_end,
                                          !.start_time = rec.stop_time,
                                          !.base_id = (@ + ID_STEP) % U64,
                                          !.bytes_written = 0],
                     file |-> file, pos |-> filePos],
                    writeHeader \o writeMetadata, result)
    IN  /\ t.pc = "switchChunk"
        /\ ioFaults + Fault(result, HEADER_SIZE + 1) <= MaxFaults
        /\ ioFaults' = ioFaults + Fault(result, HEADER_SIZE + 1)
        /\ rec' = s.rec
        /\ file' = s.file
        /\ filePos' = s.pos
        /\ rth' = [rth EXCEPT ![RecControl].pc = "flush_unlock",
                              ![RecControl].chunk_end = 0]
        /\ UNCHANGED <<recLock, recPtr, recArgs, clock, closed, pools, classMap,
                       recOps>>
        /\ RecFrame

\* _rec_lock.unlock() of flush, and the return
flush_unlock ==
    /\ rth[RecControl].pc = "flush_unlock"
    /\ recLock' = recLock - 1
    /\ rth' = [rth EXCEPT ![RecControl] =
                  IF @.caller = "dump" THEN [RIdle EXCEPT !.pc = "dump_unlock"]
                  ELSE RIdle]
    /\ UNCHANGED <<recPtr, recArgs, rec, file, filePos, clock, closed, pools,
                   classMap, ioFaults, recOps>>
    /\ RecFrame

\* FlightRecorder::dump, up to the lock
dump ==
    /\ rth[RecControl].pc = "idle"
    /\ recPtr # NULL
    /\ recOps < MaxRecOps
    /\ recOps' = recOps + 1
    /\ rth' = [rth EXCEPT ![RecControl].pc = "dump_lock"]
    /\ UNCHANGED <<recLock, recPtr, recArgs, rec, file, filePos, clock, closed,
                   pools, classMap, ioFaults>>
    /\ RecFrame

\* _rec_lock.lock() of dump and the branch on the file name: to another
\* file, copyTo starts with finishChunk(true); to the same file, dump calls
\* flush(), which finds _rec set and takes the lock itself.
dump_lock(different) ==
    /\ rth[RecControl].pc = "dump_lock"
    /\ recLock = 0
    /\ recLock' = 1
    /\ rth' = [rth EXCEPT ![RecControl] =
                  IF different
                  THEN [@ EXCEPT !.pc = "finishChunk", !.end_recording = TRUE,
                                 !.cont = "dump_copy"]
                  ELSE [@ EXCEPT !.pc = "flush_lock", !.caller = "dump"]]
    /\ UNCHANGED <<recPtr, recArgs, rec, file, filePos, clock, closed, pools,
                   classMap, ioFaults, recOps>>
    /\ RecFrame

\* OS::copyFile(_fd, target_fd, 0, chunk_end) into the target, opened
\* with O_TRUNC: the first chunk_end cells of the working file
copyFile(f, chunk_end) == SubSeq(f, 1, chunk_end)

\* copyTo has the chunk end: the file is copied, and delete _rec runs
\* finishChunk(true) once more
dump_copy ==
    /\ rth[RecControl].pc = "dump_copy"
    /\ target' = copyFile(file, rth[RecControl].chunk_end)
    /\ rth' = [rth EXCEPT ![RecControl].pc = "finishChunk",
                          ![RecControl].end_recording = TRUE,
                          ![RecControl].cont = "dump_new",
                          ![RecControl].chunk_end = 0]
    /\ UNCHANGED <<recLock, recPtr, recArgs, rec, file, filePos, clock, closed,
                   pools, classMap, ioFaults, recOps>>
    /\ DumpFrame

\* the end of ~Recording in dump, _rec = NULL and newRecording(true)
dump_new(openOk, result) ==
    /\ rth[RecControl].pc = "dump_new"
    /\ IF openOk
       THEN LET s == Recording(<<>>, recArgs, clock, result)
            IN  /\ ioFaults + Fault(result, HEADER_SIZE + 1) <= MaxFaults
                /\ ioFaults' = ioFaults + Fault(result, HEADER_SIZE + 1)
                /\ recPtr' = 1
                /\ rec' = s.rec
                /\ file' = s.file
                /\ filePos' = s.pos
                /\ closed' = <<>>
                /\ pools' = <<>>
       ELSE /\ result = -1
            /\ recPtr' = NULL
            /\ rec' = NoRecording
            /\ filePos' = 0
            /\ UNCHANGED <<file, closed, pools, ioFaults>>
    /\ rth' = [rth EXCEPT ![RecControl] = [RIdle EXCEPT !.pc = "dump_unlock"]]
    /\ UNCHANGED <<recLock, recArgs, clock, classMap, recOps>>
    /\ RecFrame

\* _rec_lock.unlock() of dump, and the return
dump_unlock ==
    /\ rth[RecControl].pc = "dump_unlock"
    /\ recLock' = recLock - 1
    /\ rth' = [rth EXCEPT ![RecControl] = RIdle]
    /\ UNCHANGED <<recPtr, recArgs, rec, file, filePos, clock, closed, pools,
                   classMap, ioFaults, recOps>>
    /\ RecFrame

\* tryLockShared of timerTick / recordLog by thread t: the body follows if
\* no thread holds the lock exclusively, the call returns otherwise
tryLockShared(t, body, wall_time) ==
    /\ rth[t].pc = "idle"
    /\ recOps < MaxRecOps
    /\ recOps' = recOps + 1
    /\ IF recLock <= 0
       THEN /\ recLock' = recLock - 1
            /\ rth' = [rth EXCEPT ![t] = [RIdle EXCEPT !.pc = body,
                                                       !.wall_time = wall_time]]
       ELSE /\ recLock' = recLock
            /\ rth' = [rth EXCEPT ![t] = RIdle]
    /\ UNCHANGED <<recPtr, recArgs, rec, file, filePos, clock, closed, pools,
                   classMap, ioFaults>>
    /\ RecFrame

\* unlockShared of timerTick / recordLog, and the return
unlockShared(t) ==
    /\ rth[t].pc = "unlockShared"
    /\ recLock' = recLock + 1
    /\ rth' = [rth EXCEPT ![t].pc = "idle", ![t].wall_time = 0]
    /\ UNCHANGED <<recPtr, recArgs, rec, file, filePos, clock, closed, pools,
                   classMap, ioFaults, recOps>>
    /\ RecFrame

\* a call through _rec while _rec is NULL
fault(t) ==
    /\ recPtr = NULL
    /\ rth' = [rth EXCEPT ![t].pc = "fault"]
    /\ UNCHANGED <<recLock, recPtr, recArgs, rec, file, filePos, clock, closed,
                   pools, classMap, ioFaults, recOps>>
    /\ RecFrame

\* FlightRecorder::timerTick(wall_time), line 1380
timerTick(wall_time) == tryLockShared(RecTimer, "cycle", wall_time)

\* lines 1385-1386: cpuMonitorCycle (one more event in _cpu_monitor_buf,
\* flushed once the buffer has reached BUFFER_LIMIT) and needSwitchChunk
timerTick_cycle(result) ==
    /\ rth[RecTimer].pc = "cycle"
    /\ \/ fault(RecTimer)
       \/ /\ recPtr # NULL
          /\ LET n  == rec.cpu_monitor_buf + 1
                 s0 == [rec |-> [rec EXCEPT !.cpu_monitor_buf = n],
                        file |-> file, pos |-> filePos]
                 s  == IF n >= BUFFER_LIMIT
                       THEN flush([s0 EXCEPT !.rec.cpu_monitor_buf = 0],
                                  [i \in 1 .. n |-> Cell("cpu_load", <<>>)], result)
                       ELSE s0
                 faults == IF n >= BUFFER_LIMIT THEN Fault(result, n) ELSE 0
             IN  /\ result \in (IF n >= BUFFER_LIMIT THEN WriteResults(n) ELSE {0})
                 /\ ioFaults + faults <= MaxFaults
                 /\ ioFaults' = ioFaults + faults
                 /\ rec' = s.rec
                 /\ file' = s.file
                 /\ filePos' = s.pos
                 /\ rth' = [rth EXCEPT
                              ![RecTimer].pc = "unlockShared",
                              ![RecTimer].need =
                                  needSwitchChunk(s.rec, rth[RecTimer].wall_time)]
          /\ UNCHANGED <<recLock, recPtr, recArgs, clock, closed, pools, classMap,
                         recOps>>
          /\ RecFrame

\* lines 1388-1389
timerTick_unlockShared == unlockShared(RecTimer)

\* FlightRecorder::recordLog, line 1439
recordLog == tryLockShared(RecLogger, "flush", 0)

\* lines 1444-1454: the event is built in a buffer on the stack and flushed
recordLog_flush(result) ==
    /\ rth[RecLogger].pc = "flush"
    /\ \/ fault(RecLogger)
       \/ /\ recPtr # NULL
          /\ LET s == flush([rec |-> rec, file |-> file, pos |-> filePos],
                            <<Cell("log", <<>>)>>, result)
             IN  /\ ioFaults + Fault(result, 1) <= MaxFaults
                 /\ ioFaults' = ioFaults + Fault(result, 1)
                 /\ rec' = s.rec
                 /\ file' = s.file
                 /\ filePos' = s.pos
          /\ rth' = [rth EXCEPT ![RecLogger].pc = "unlockShared"]
          /\ UNCHANGED <<recLock, recPtr, recArgs, clock, closed, pools, classMap,
                         recOps>>
          /\ RecFrame

\* line 1456
recordLog_unlockShared == unlockShared(RecLogger)

\* The recorder with its three threads; no call trace has been stored.
RecNext ==
    \/ micros
    \/ \E a \in ChunkSizeArgs \X ChunkTimeArgs, named \in BOOLEAN, reset \in BOOLEAN,
          openOk \in BOOLEAN, result \in WriteResults(HEADER_SIZE + 1) :
             start(a, named, reset, openOk, result)
    \/ stop
    \/ stop_lock
    \/ \E r1 \in -1 .. BUFFER_LIMIT, r2 \in -1 .. 1, r3 \in WriteResults(2) :
          finishChunk(r1, r2, r3, <<>>, 0)
    \/ \E p1 \in WriteResults(CpoolSlotLen), p2 \in WriteResults(TailLen) :
          finishChunk_patch(p1, p2)
    \/ stop_close
    \/ flush_begin
    \/ flush_lock
    \/ \E result \in WriteResults(HEADER_SIZE + 1) : switchChunk(result)
    \/ flush_unlock
    \/ dump
    \/ \E different \in BOOLEAN : dump_lock(different)
    \/ dump_copy
    \/ \E openOk \in BOOLEAN, result \in WriteResults(HEADER_SIZE + 1) :
          dump_new(openOk, result)
    \/ dump_unlock
    \/ \E wall_time \in 0 .. clock : timerTick(wall_time)
    \/ \E result \in -1 .. BUFFER_LIMIT : timerTick_cycle(result)
    \/ timerTick_unlockShared
    \/ recordLog
    \/ \E result \in WriteResults(1) : recordLog_flush(result)
    \/ recordLog_unlockShared

\* The control thread alone, with every write complete: what the constant
\* pools of successive chunks hold.
CpoolNext ==
    \/ \E reset \in BOOLEAN : start(<<0, 0>>, TRUE, reset, TRUE, HEADER_SIZE + 1)
    \/ stop
    \/ stop_lock
    \/ \E traces \in TraceStores, lay \in DictLayouts :
          finishChunk(0, IF rth[RecControl].end_recording THEN 1 ELSE 0, 2, traces, lay)
    \/ finishChunk_patch(CpoolSlotLen, TailLen)
    \/ stop_close
    \/ flush_begin
    \/ flush_lock
    \/ switchChunk(HEADER_SIZE + 1)
    \/ flush_unlock
    \/ dump
    \/ dump_lock(TRUE)
    \/ dump_copy
    \/ dump_new(TRUE, HEADER_SIZE + 1)
    \/ dump_unlock

\* ---- claims on the recording lock
\* a producer between its tryLockShared and the end of its unlockShared
InBody(t) == rth[t].pc \in {"cycle", "flush", "unlockShared"}
\* the control thread between a lock() of stop, dump or flush and the
\* matching release
InExclusive ==
    \/ rth[RecControl].pc \in {"finishChunk", "patch", "close", "switchChunk",
                               "flush_unlock", "dump_copy", "dump_new", "dump_unlock"}
    \/ rth[RecControl].pc = "flush_lock" /\ rth[RecControl].caller = "dump"
\* a call of timerTick or recordLog
ProducerCall(t) ==
    IF t = RecTimer THEN \E w \in Times : timerTick(w) ELSE recordLog
\* the call has returned at once and has left the recording alone
ReturnedUntouched(t) ==
    /\ rth'[t].pc = "idle"
    /\ UNCHANGED <<recLock, recPtr, rec, file, filePos>>

\* C15: timerTick and recordLog are inside their body only with the lock
\* held shared, with a recording to work on and with no stop, dump or
\* rotation inside its exclusive section; and a call made while the lock
\* is held exclusively or while there is no recording returns at once
\* without touching the recording.
C15_ProducersUnderSharedLock ==
    /\ [](\A t \in {RecTimer, RecLogger} :
             InBody(t) => recLock < 0 /\ recPtr # NULL /\ ~InExclusive)
    /\ [][\A t \in {RecTimer, RecLogger} :
             ProducerCall(t) /\ (recLock = 1 \/ recPtr = NULL)
                => ReturnedUntouched(t)]_vars

\* C15, the part that holds: the bodies run under the shared lock and
\* never beside an exclusive section, and a call made while the lock is
\* held exclusively returns at once without touching the recording.
C15_LockProtocol ==
    /\ [](\A t \in {RecTimer, RecLogger} :
             InBody(t) => recLock < 0 /\ ~InExclusive)
    /\ [][\A t \in {RecTimer, RecLogger} :
             ProducerCall(t) /\ recLock = 1 => ReturnedUntouched(t)]_vars

\* a producer is at work on the recording while flush waits for the lock
C15_Witness ==
    /\ InBody(RecTimer)
    /\ recPtr # NULL
    /\ rth[RecControl].pc = "flush_lock"

\* ---- claims on the chunks in the file
\* the chunk size the header of the chunk starting at `from` holds
HeaderChunkSize(from) ==
    IF from + TailOffset < Len(file) /\ file[from + TailOffset + 1].t = "chunk_size"
    THEN file[from + TailOffset + 1].v[1]
    ELSE -1
\* the recording is closed: stop has returned
RecordingClosed == recPtr = NULL /\ rth[RecControl].pc = "idle"

\* the closed chunks tile the file and the header of each holds its size
ChunksTile ==
    /\ closed # <<>> => closed[1].start = 0
    /\ \A k \in 1 .. Len(closed) :
          /\ HeaderChunkSize(closed[k].start) = closed[k].end - closed[k].start
          /\ k < Len(closed) => closed[k + 1].start = closed[k].end
          /\ k = Len(closed) /\ RecordingClosed => closed[k].end = Len(file)

\* C16: the header of every closed chunk holds, as chunk_size, the distance
\* from the start of the chunk to the start of the next chunk, or to the
\* end of the file for the last chunk of a closed recording; the closed
\* chunks follow one another from the start of the file without gap or
\* overlap, whatever the results of the write calls were.
C16_ChunkSizeTilesFile == ChunksTile

\* C16, the part that holds: the same as long as every write and pwrite
\* has transferred all it was given.
C16_TilesWhenWritesComplete == ioFaults = 0 => ChunksTile

\* two chunks closed by complete writes, the recording stopped
C16_Witness ==
    /\ Len(closed) = 2
    /\ ioFaults = 0
    /\ RecordingClosed

\* ---- claims on the patches of finishChunk
\* the step is the patch part of finishChunk
PatchStep == rth[RecControl].pc = "patch" /\ rth'[RecControl].pc # "patch"
\* the file offsets the two pwrite calls of finishChunk may write
Patched(off) ==
    \/ /\ off >= rth[RecControl].cpool_offset
       /\ off < rth[RecControl].cpool_offset + CpoolSlotLen
    \/ /\ off >= rec.chunk_start + TailOffset
       /\ off < rec.chunk_start + TailOffset + TailLen

\* C17: the patches of finishChunk change nothing but the constant pool
\* size slot at cpool_offset and the header tail at chunk_start + 8: every
\* other cell of the file is as before (a cell that did not exist is
\* either patched or a hole), no magic, version or features cell of any
\* chunk is written, and the file offset of the descriptor stays.
C17_PatchWritesOnlySlotAndTail ==
    [][PatchStep =>
        /\ filePos' = filePos
        /\ Len(file') >= Len(file)
        /\ \A i \in 1 .. Len(file') :
              ~Patched(i - 1) =>
                 IF i <= Len(file) THEN file'[i] = file[i] ELSE file'[i] = Hole
        /\ \A i \in 1 .. Len(file) :
              file[i].t \in {"magic", "version", "features"} => file'[i] = file[i]]_vars

\* the second chunk has been closed: its header holds the patched size
\* between a magic and a features cell that are still there, and so does
\* the header of the first chunk
C17_Witness ==
    /\ Len(closed) = 2
    /\ \A k \in 1 .. 2 :
          /\ HeaderChunkSize(closed[k].start) = closed[k].end - closed[k].start
          /\ file[closed[k].start + 1].t = "magic"
          /\ file[closed[k].start + 2].t = "version"
          /\ file[closed[k].start + HEADER_SIZE].t = "features"
    /\ file[closed[2].end].t = "cpool"

\* ---- claims on the constant pools
\* the ids of each kind a pool has emitted
MethodKeys(p) == {p.methods[k].key : k \in 1 .. Len(p.methods)}
ClassIds(p)   == {c.id : c \in p.classes}
PackageIds(p) == {q.id : q \in p.packages}
SymbolIds(p)  == p.symbols

\* C18: the method keys, class ids, package ids and symbol ids in the
\* constant pools of two different chunks of a recording have nothing in
\* common.
C18_IdsDisjointAcrossChunks ==
    \A i, j \in 1 .. Len(pools) :
        pools[i].base # pools[j].base =>
            /\ MethodKeys(pools[i]) \cap MethodKeys(pools[j]) = {}
            /\ ClassIds(pools[i]) \cap ClassIds(pools[j]) = {}
            /\ PackageIds(pools[i]) \cap PackageIds(pools[j]) = {}
            /\ SymbolIds(pools[i]) \cap SymbolIds(pools[j]) = {}

\* C18, the part that holds: the package ids and the symbol ids of two
\* chunks differ as long as the dictionaries of both gave ids below the
\* step of _base_id.
C18_SymbolsDisjointBelowStep ==
    \A i, j \in 1 .. Len(pools) :
        pools[i].base # pools[j].base /\ pools[i].lay = 0 /\ pools[j].lay = 0 =>
            /\ PackageIds(pools[i]) \cap PackageIds(pools[j]) = {}
            /\ SymbolIds(pools[i]) \cap SymbolIds(pools[j]) = {}

\* two chunks with symbols and packages from dictionaries below the step
C18_Witness ==
    \E i, j \in 1 .. Len(pools) :
        /\ pools[i].base # pools[j].base
        /\ pools[i].lay = 0 /\ pools[j].lay = 0
        /\ PackageIds(pools[i]) # {} /\ PackageIds(pools[j]) # {}
        /\ pools[i].methods # <<>> /\ pools[j].methods # <<>>

\* a symbol id of one chunk is a symbol id of another although no method
\* and no class is in both (the ids collide through the or with _base_id)
C18_SymbolCollision ==
    \E i, j \in 1 .. Len(pools) :
        /\ pools[i].base # pools[j].base
        /\ SymbolIds(pools[i]) \cap SymbolIds(pools[j]) # {}

\* the methods the records of a method pool are for
MethodsWritten(p) == {p.methods[k].method : k \in 1 .. Len(p.methods)}

SizeLimit == IF recArgs[1] > 0 THEN max(recArgs[1], MinChunkSize) ELSE -1
TimeLimit ==
    IF recArgs[2] > 0 THEN max(recArgs[2], MinChunkTime) * MicrosPerSec ELSE -1
\* the chunk has reached one of its limits at wall_time
ShouldRotate(bytes, wall_time) ==
    \/ SizeLimit >= 0 /\ bytes >= SizeLimit
    \/ TimeLimit >= 0 /\ wall_time - rec.start_time >= TimeLimit
\* the step of timerTick that evaluates needSwitchChunk
NeedStep == rth[RecTimer].pc = "cycle" /\ rth'[RecTimer].pc = "unlockShared"

\* C20: timerTick asks for a rotation exactly when the bytes written to
\* the chunk have reached the size limit or the age wall_time - start_time
\* of the chunk has reached the time limit; a chunk below both limits is
\* never reported, and no chunk is while both limits are unset.
C20_RotationPolicy ==
    [][NeedStep =>
         (rth'[RecTimer].need
            <=> ShouldRotate(rec'.bytes_written, rth[RecTimer].wall_time))]_vars

\* C20, the part that holds: the same for every call whose wall_time is
\* not before the start of the chunk.
C20_PolicyWhenNotBeforeStart ==
    [][NeedStep /\ rth[RecTimer].wall_time >= rec.start_time =>
         (rth'[RecTimer].need
            <=> ShouldRotate(rec'.bytes_written, rth[RecTimer].wall_time))]_vars

\* timerTick has asked for the rotation of a chunk that reached its size
\* limit before its time limit
C20_Witness ==
    /\ rth[RecTimer].pc = "unlockShared"
    /\ rth[RecTimer].need
    /\ rth[RecTimer].wall_time >= rec.start_time
    /\ SizeLimit >= 0 /\ rec.bytes_written >= SizeLimit
    /\ TimeLimit >= 0 /\ rth[RecTimer].wall_time - rec.start_time < TimeLimit

\* ---- claims on dump and on a failed start
\* dump has taken the lock, found its own file name and called flush()
DumpInFlush ==
    /\ rth[RecControl].pc = "flush_lock"
    /\ rth[RecControl].caller = "dump"

\* C21: a dump to the recording's own file goes through flush, that is
\* closes the chunk, opens the next one and returns with the lock released:
\* the flush it calls is never left waiting for a lock that only dump
\* itself can release, so the call terminates.
C21_DumpSameFileFlushes ==
    DumpInFlush => recLock # 1

\* the blocked state: flush spins on the lock, dump holds it, and no
\* producer is inside to change it
C21_DumpBlocked ==
    /\ DumpInFlush
    /\ recLock = 1
    /\ ~ENABLED flush_lock
    /\ \A t \in {RecTimer, RecLogger} : ~InBody(t)

\* the last call of start has returned an error
StartFailed == rth[RecControl].error

\* C22: once start has returned an error no Recording exists, the lock is
\* held exclusively and neither timerTick nor recordLog is inside its body.
C22_FailedStartNeverBegins ==
    StartFailed =>
        /\ recPtr = NULL
        /\ recLock = 1
        /\ \A t \in {RecTimer, RecLogger} : ~InBody(t)

\* C22, the part that holds: no Recording exists after a failed start, and
\* while the lock is still exclusive the producers stay out.
C22_FailedStartHasNoRecording ==
    StartFailed =>
        /\ recPtr = NULL
        /\ recLock = 1 => \A t \in {RecTimer, RecLogger} : ~InBody(t)

\* start has failed on a recorder whose lock is exclusive, and a producer
\* has called in since
C22_Witness ==
    /\ StartFailed
    /\ recPtr = NULL
    /\ recLock = 1
    /\ recOps >= 2

\* start has failed to open its file: the lock is free without a Recording
C22_LockFreeAfterFailedStart ==
    /\ StartFailed
    /\ recPtr = NULL
    /\ recLock = 0

\* ---- claims on the liveness tracker: initialization
\* inputs with which initialize cannot proceed: a runtime below 11, no heap
\* size from either source, or no Class.getName
InitCannotProceed(java_version, maxSize, maxMemory, classOk) ==
    \/ java_version < 11
    \/ maxSize = -1 /\ maxMemory = -1
    \/ ~classOk
\* a call of initialize with such inputs
FailingInitialize ==
    \E v \in JavaVersions, ms \in MaxSizes, mm \in MaxMemories,
       m \in SamplingIntervals, classOk \in BOOLEAN :
          /\ InitCannotProceed(v, ms, mm, classOk)
          /\ initialize(v, ms, mm, m, classOk)
\* the tracker has disabled itself
SelfDisabled == lt.initialized /\ lt.max_cap = 0
\* a call of track
TrackCall == \E t \in Trackers, refOk \in BOOLEAN : track_begin(t, refOk)

\* C23: an initialize that cannot proceed returns OK and leaves max_cap = 0;
\* the tracker stays disabled from then on, and every later call of track
\* stores nothing, creates no weak reference and leaves the size unchanged.
C23_FailedInitDisablesTracker ==
    /\ [][FailingInitialize => SelfDisabled' /\ lt'.stored_error = "OK"]_vars
    /\ [][SelfDisabled => SelfDisabled']_vars
    /\ [][SelfDisabled /\ TrackCall
             => UNCHANGED <<table, heap, th>> /\ lt'.size = lt.size]_vars
    /\ [](SelfDisabled => heap.weak = {} /\ lt.size = 0)

\* track has been called twice on a tracker that disabled itself
C23_Witness ==
    /\ SelfDisabled
    /\ lt.stored_error = "OK"
    /\ tracks = MaxTracks
    /\ heap.weak = {}

(***************************************************************************)
(*                               BUFFER                                    *)
(* Buffer of flightRecorder.cpp.  A byte of the model has SEPTET payload   *)
(* bits and one high bit; u32 is five septets wide at most (32 <= 5 * 7)   *)
(* and u64 is nine septets and one bit (64 = 9 * 7 + 1), as in the source. *)
(***************************************************************************)
\* String lengths run from 0 to MaxStrLen.
MaxStrLen == 5
\* Values TSC::ticks() gives to recordLog run from 0 to MaxTicks.
MaxTicks == 1

\* payload bits of a varint byte (7)
SEPTET == 1
\* septets one round of the fast path of putVar64 writes (3), and the
\* rounds after which it returns (3)
FAST_SEPTETS == 3
FAST_ROUNDS == 3
\* bits of u32 (32) and of u64 (64), scaled with SEPTET
U32_BITS == 5
U64_BITS == 10
\* MAX_STRING_LENGTH (8191: two septets of ones), scaled with SEPTET
MAX_STRING_LENGTH == 3
\* the tag of a string (3) and of a null string (0)
STRING_TAG == 3
NULL_TAG == 0
\* bytes of the size slot an event reserves (5)
SIZE_SLOT == 5
\* the type id of a log event
T_LOG == 1
\* the LogLevel values
LogLevels == 0 .. 1

\* 0x80, 0x7f, 0x1fffff and the modulus of a char
CONT       == Pow2(SEPTET)
SEPTET_MAX == CONT - 1
FAST_MAX   == Pow2(FAST_SEPTETS * SEPTET) - 1
CHAR       == 2 * CONT
U32Values  == 0 .. (Pow2(U32_BITS) - 1)
U64Values  == 0 .. (Pow2(U64_BITS) - 1)

\* v >> n
Shr(v, n) == v \div Pow2(n)
\* (char)v | 0x80, stored into a char
ContByte(v) == BitOr(v % CHAR, CONT) % CHAR

\* put8(v)
put8(b, v) == Append(b, v % CHAR)
\* put(v, len): memcpy of the first len bytes
put(b, v, len) == b \o SubSeq(v, 1, len)
\* skip(delta): the bytes skipped keep what the memory held
skip(b, delta) == b \o [i \in 1 .. delta |-> Uninit]

\* putVar32(v)
RECURSIVE putVar32(_, _)
putVar32(b, v) ==
    IF v > SEPTET_MAX
    THEN putVar32(Append(b, ContByte(v)), Shr(v, SEPTET))
    ELSE Append(b, v % CHAR)

\* one round of the first loop of putVar64: three bytes, three shifts
FastRound(b, v) ==
    LET v1 == Shr(v, SEPTET)
        v2 == Shr(v1, SEPTET)
    IN  [b |-> b \o <<ContByte(v), ContByte(v1), ContByte(v2)>>,
         v |-> Shr(v2, SEPTET)]

\* the first loop of putVar64; `returned` when ++iter == 3 has left the
\* function
RECURSIVE putVar64Fast(_, _, _)
putVar64Fast(b, v, iter) ==
    IF v > FAST_MAX
    THEN LET r == FastRound(b, v)
         IN  IF iter + 1 = FAST_ROUNDS
             THEN [b |-> r.b, v |-> r.v, returned |-> TRUE]
             ELSE putVar64Fast(r.b, r.v, iter + 1)
    ELSE [b |-> b, v |-> v, returned |-> FALSE]

\* putVar64(v): the second loop and the last byte are those of putVar32
putVar64(b, v) ==
    LET f == putVar64Fast(b, v, 0)
    IN  IF f.returned THEN f.b ELSE putVar32(f.b, f.v)

\* putVar32(offset, v): five bytes in place
putVar32_offset(b, offset, v) ==
    [b EXCEPT ![offset + 1] = ContByte(v),
              ![offset + 2] = ContByte(Shr(v, SEPTET)),
              ![offset + 3] = ContByte(Shr(v, 2 * SEPTET)),
              ![offset + 4] = ContByte(Shr(v, 3 * SEPTET)),
              ![offset + 5] = Shr(v, 4 * SEPTET) % CHAR]

\* a string of n bytes; the null pointer is NullString
String(n) == [i \in 1 .. n |-> 1 + (i % 3)]
NullString == <<NULL>>
Strings == {String(n) : n \in 0 .. MaxStrLen} \cup {NullString}
strlen(v) == Len(v)

\* a string written whole
WholeLength(len) == len
\* line 393: the length putUtf8(v) passes on
CappedLength(len) == IF len < MAX_STRING_LENGTH THEN len ELSE MAX_STRING_LENGTH

\* putUtf8(v, len)
putUtf8_len(b, v, len) == put(putVar32(put8(b, STRING_TAG), len), v, len)
\* putUtf8(v)
putUtf8(b, v) ==
    IF v = NullString THEN put8(b, NULL_TAG)
    ELSE putUtf8_len(b, v, CappedLength(strlen(v)))

\* the event recordLog builds in its buffer (lines 1444-1453)
LogEvent(level, message, len, ticks) ==
    LET len1  == IF len > MAX_STRING_LENGTH THEN MAX_STRING_LENGTH ELSE len
        b0    == skip(<<>>, SIZE_SLOT)
        at    == 0
        b1    == putVar64(b0, T_LOG)
        b2    == putVar64(b1, ticks)
        b3    == putVar64(b2, level)
        b4    == putUtf8_len(b3, message, len1)
    IN  putVar32_offset(b4, at, Len(b4) - at)

NoCall == [op |-> "none", v |-> 0, s |-> <<>>]

BufInit ==
    /\ buf = <<>>
    /\ bcall = NoCall

\* Buffer::reset, a fresh buffer
reset ==
    /\ bcall # NoCall
    /\ buf' = <<>>
    /\ bcall' = NoCall
    /\ BufFrame

\* a call of putVar32(v) on a fresh buffer
call_putVar32(v) ==
    /\ bcall = NoCall
    /\ buf' = putVar32(buf, v)
    /\ bcall' = [op |-> "putVar32", v |-> v, s |-> <<>>]
    /\ BufFrame

\* a call of putVar64(v) on a fresh buffer
call_putVar64(v) ==
    /\ bcall = NoCall
    /\ buf' = putVar64(buf, v)
    /\ bcall' = [op |-> "putVar64", v |-> v, s |-> <<>>]
    /\ BufFrame

\* skip(5) and, with the slot reserved, putVar32(start, v)
call_putVar32_offset(v) ==
    /\ bcall = NoCall
    /\ buf' = putVar32_offset(skip(buf, SIZE_SLOT), 0, v)
    /\ bcall' = [op |-> "putVar32_offset", v |-> v, s |-> <<>>]
    /\ BufFrame

\* a call of putUtf8(v) on a fresh buffer
call_putUtf8(v) ==
    /\ bcall = NoCall
    /\ buf' = putUtf8(buf, v)
    /\ bcall' = [op |-> "putUtf8", v |-> 0, s |-> v]
    /\ BufFrame

\* recordLog(level, message, len) up to the flush of its buffer
call_recordLog(level, message, ticks) ==
    /\ bcall = NoCall
    /\ message # NullString
    /\ buf' = LogEvent(level, message, strlen(message), ticks)
    /\ bcall' = [op |-> "recordLog", v |-> level, s |-> message]
    /\ BufFrame

\* ---- the stack traces of the constant pool, byte by byte
\* T_STACK_TRACE, and the frame types: FRAME_INTERPRETED, which fillJavaMethodInfo
\* gives (line 248), and FRAME_NATIVE
T_STACK_TRACE == 2
FRAME_INTERPRETED == 0
FRAME_NATIVE == 3
\* Traces handed to one writeStackTraces, and frames of a trace, at most.
MaxStored == 2
MaxFrames == 2

\* a bci as a frame holds it: the frame type encoded in it, bit 0x10000,
\* and the low 16 bits
Bci(type, flag, low) == [type |-> type, flag |-> flag, low |-> low]
\* FrameType::decode(bci)
decode(bci) == bci.type
\* a frame with the MethodInfo resolveMethod gives for it: _key, _type,
\* _is_entry and an empty line number table
Frame(key, type, is_entry, bci) ==
    [key |-> key, type |-> type, is_entry |-> is_entry, bci |-> bci]
\* MethodInfo::getLineNumber with _line_number_table_size == 0
getLineNumber(mi, bci) == 0
FrameKinds ==
    { Frame(1, FRAME_INTERPRETED, TRUE,  Bci(1, FALSE, 1)),
      Frame(2, FRAME_INTERPRETED, FALSE, Bci(0, TRUE, 1)),
      Frame(3, FRAME_NATIVE,      FALSE, Bci(0, FALSE, 1)) }
\* CallTrace: truncated, num_frames, frames
CallTraces ==
    {[truncated |-> t, frames |-> f] :
        t \in 0 .. 1, f \in SeqsUpTo(FrameKinds, MaxFrames)}
\* what collectTraces fills the map with; the map is walked in the order
\* of its keys, which are the places in the sequence
CollectedTraces == SeqsUpTo(CallTraces, MaxStored) \ {<<>>}

\* lines 1051-1064: the fields of one frame
putFrame(b, f) ==
    LET b1 == putVar64(b, f.key)
    IN  IF f.type < FRAME_NATIVE
        THEN LET bci == IF f.bci.flag THEN 0 ELSE f.bci.low
             IN  put8(putVar32(putVar32(b1, getLineNumber(f, bci)), bci),
                      decode(f.bci))
        ELSE put8(putVar32(putVar32(b1, 0), f.bci.low), f.type)
RECURSIVE putFrames(_, _)
putFrames(b, frames) ==
    IF frames = <<>> THEN b ELSE putFrames(putFrame(b, Head(frames)), Tail(frames))

\* lines 1040-1047: the byte written before the frame count
putMarker(b, trace) ==
    LET n == Len(trace.frames)
    IN  IF n > 0
        THEN IF trace.frames[n].type < FRAME_NATIVE
             THEN put8(b, IF trace.frames[n].is_entry THEN 0 ELSE 1)
             ELSE put8(b, trace.truncated)
        ELSE b

\* lines 1037-1066: the record of the trace with the key id
RECURSIVE putTraces(_, _, _)
putTraces(b, traces, id) ==
    IF id > Len(traces) THEN b
    ELSE LET trace == traces[id]
             b1 == putMarker(putVar64(b, id), trace)
             b2 == putVar64(b1, Len(trace.frames))
         IN  putTraces(putFrames(b2, trace.frames), traces, id + 1)

\* Recording::writeStackTraces into a buffer that no flushIfNeeded empties
call_writeStackTraces(traces) ==
    /\ bcall = NoCall
    /\ buf' = putTraces(putVar64(putVar64(buf, T_STACK_TRACE), Len(traces)),
                        traces, 1)
    /\ bcall' = [op |-> "writeStackTraces", v |-> 0, s |-> traces]
    /\ BufFrame

BufNext ==
    \/ reset
    \/ \E traces \in CollectedTraces : call_writeStackTraces(traces)
    \/ \E v \in U32Values : call_putVar32(v)
    \/ \E v \in U64Values : call_putVar64(v)
    \/ \E v \in U32Values : call_putVar32_offset(v)
    \/ \E v \in Strings : call_putUtf8(v)
    \/ \E level \in LogLevels, message \in Strings, ticks \in 0 .. MaxTicks :
          call_recordLog(level, message, ticks)

\* ---- claims on the encoders
\* The varint decoding of the format from byte i of b on: seven payload
\* bits per byte, the high bit says that another byte follows.  `closed`:
\* a byte without the high bit has ended the varint; len: bytes read.
RECURSIVE DecodeFrom(_, _, _, _)
DecodeFrom(b, i, shift, acc) ==
    IF i > Len(b)
    THEN [value |-> acc, next |-> i, closed |-> FALSE]
    ELSE LET acc2 == acc + ((b[i] % CONT) * Pow2(shift))
         IN  IF b[i] >= CONT
             THEN DecodeFrom(b, i + 1, shift + SEPTET, acc2)
             ELSE [value |-> acc2, next |-> i + 1, closed |-> TRUE]
DecodeVar(b, i) == DecodeFrom(b, i, 0, 0)

VarintCall == bcall.op \in {"putVar32", "putVar64", "putVar32_offset"}
\* the bytes of the call decode to v and the varint ends with them
RoundTrips ==
    LET d == DecodeVar(buf, 1)
    IN  d.closed /\ d.value = bcall.v /\ d.next = Len(buf) + 1

\* C24: what putVar32(v), putVar64(v) and putVar32(offset, v) have written
\* decodes to v, for every 32-bit and every 64-bit v, those with the top
\* bit set included.
C24_VarintRoundTrip ==
    VarintCall => RoundTrips

\* C24, the part that holds: the round trip of every u32, in both forms,
\* and of every u64 below 2^63.
C24_RoundTripBelowTopBit ==
    VarintCall /\ bcall.v < Pow2(U64_BITS - 1) => RoundTrips

\* the largest u64 below 2^63 has been written, in nine bytes
C24_Witness ==
    /\ bcall.op = "putVar64"
    /\ bcall.v = Pow2(U64_BITS - 1) - 1
    /\ Len(buf) = FAST_SEPTETS * FAST_ROUNDS
    /\ RoundTrips

\* a u64 with the top bit set: nine bytes, each with the high bit
C24_TopBitUnterminated ==
    /\ bcall.op = "putVar64"
    /\ bcall.v >= Pow2(U64_BITS - 1)
    /\ Len(buf) = FAST_SEPTETS * FAST_ROUNDS
    /\ \A i \in 1 .. Len(buf) : buf[i] >= CONT

\* the string field that starts at byte i of b: tag, length, payload
StringField(b, i) ==
    LET d == DecodeVar(b, i + 1)
    IN  [tag     |-> b[i],
         closed  |-> d.closed,
         length  |-> d.value,
         payload |-> SubSeq(b, d.next, Len(b))]
\* the field holds the first min(strlen, MAX_STRING_LENGTH) bytes of s
\* and its length varint counts the bytes written
Capped(f, s) ==
    /\ f.tag = STRING_TAG
    /\ f.closed
    /\ f.length = Len(f.payload)
    /\ f.length = (IF Len(s) <= MAX_STRING_LENGTH THEN Len(s) ELSE MAX_STRING_LENGTH)
    /\ f.payload = SubSeq(s, 1, f.length)
\* where the string of a log event starts: behind the size slot and the
\* varints of type, ticks and level
LogStringAt ==
    DecodeVar(buf, DecodeVar(buf, DecodeVar(buf, SIZE_SLOT + 1).next).next).next

\* C25: a string of up to MAX_STRING_LENGTH bytes is written whole, a
\* longer one as its first MAX_STRING_LENGTH bytes; the length varint of
\* the string and the size prefix of a log event count the bytes written.
C25_StringCapped ==
    /\ bcall.op = "putUtf8" /\ bcall.s # NullString
          => Capped(StringField(buf, 1), bcall.s)
    /\ bcall.op = "recordLog"
          => /\ Capped(StringField(buf, LogStringAt), bcall.s)
             /\ DecodeVar(buf, 1).value = Len(buf)
             /\ DecodeVar(buf, 1).next = SIZE_SLOT + 1

\* a log event with a message longer than MAX_STRING_LENGTH
C25_Witness ==
    /\ bcall.op = "recordLog"
    /\ Len(bcall.s) = MaxStrLen
    /\ StringField(buf, LogStringAt).length = MAX_STRING_LENGTH
    /\ DecodeVar(buf, 1).value = Len(buf)

(***************************************************************************)
(*                  SIZING OF THE LIVENESS TABLE                           *)
(* The arithmetic of initialize_table, initialize and the growth of track  *)
(* on the numbers of the source: capacities in entries, heap sizes and     *)
(* sampling intervals in bytes.                                            *)
(***************************************************************************)
\* the 2048 of lines 162 and 225
TABLE_FLOOR == 2048
\* MAX_TRACKING_TABLE_SIZE in entries
TABLE_MAX == 262144
\* heap sizes from 1 MiB to 1 GiB, sampling intervals from none to 512 KiB
HeapSizes == {Pow2(20), Pow2(22), Pow2(24), Pow2(26), Pow2(28), Pow2(30)}
Intervals == {0, Pow2(9), Pow2(12), Pow2(14), Pow2(16), Pow2(19)}

Unsized == [pc |-> "new", max_heap |-> 0, interval |-> 0, max_cap |-> 0,
            cap |-> 0, initial_cap |-> 0, steps |-> 0]

CapInit == sizing = Unsized

\* a successful initialize: initialize_table sets max_cap and a capacity,
\* line 225 then sets the capacity the table is allocated with
size_initialize(max_heap, sampling_interval) ==
    /\ sizing.pc = "new"
    /\ LET sized == SizeTable(TABLE_MAX, TABLE_FLOOR, max_heap, sampling_interval)
           cap   == InitialCap(TABLE_FLOOR, sized.max_cap)
       IN  sizing' = [pc |-> "sized", max_heap |-> max_heap,
                      interval |-> sampling_interval,
                      max_cap |-> sized.max_cap, cap |-> cap,
                      initial_cap |-> cap, steps |-> 0]
    /\ CapFrame

\* one growth of track (lines 286-297), taken when the table is full
size_grow ==
    /\ sizing.pc = "sized"
    /\ sizing.cap < sizing.max_cap
    /\ sizing' = [sizing EXCEPT !.cap = newcap(@, sizing.max_cap),
                                !.steps = @ + 1]
    /\ CapFrame

CapNext ==
    \/ \E h \in HeapSizes, i \in Intervals : size_initialize(h, i)
    \/ size_grow

\* ---- claims on the sizing
Sized == sizing.pc = "sized"
Saturated == sizing.cap = sizing.max_cap

\* C26: after a successful initialization the initial capacity is
\* max(2048, max_cap / 8), every growth sets cap to min(2 * cap, max_cap),
\* and the table is at max_cap after at most three growths.
C26_InitialCapAndGrowth ==
    /\ [](Sized => sizing.initial_cap = EighthCap(TABLE_FLOOR, sizing.max_cap))
    /\ [](Sized => sizing.steps <= 3)
    /\ [][Sized /\ sizing'.steps = sizing.steps + 1
             => sizing'.cap = __min(2 * sizing.cap, sizing.max_cap)]_vars

\* C26, the part that holds: the initial capacity is min(2048, max_cap),
\* it never exceeds max_cap, and every growth sets cap to
\* min(2 * cap, max_cap).
C26_InitialCapIsFloorCapped ==
    /\ [](Sized => sizing.initial_cap = __min(TABLE_FLOOR, sizing.max_cap))
    /\ [](Sized => sizing.cap <= sizing.max_cap)
    /\ [][Sized /\ sizing'.steps = sizing.steps + 1
             => sizing'.cap = __min(2 * sizing.cap, sizing.max_cap)]_vars

\* scenario S4 (1 GiB, 512 KiB): max_cap = 2048 and the table starts full
\* grown
C26_ScenarioS4 ==
    /\ Sized
    /\ sizing.max_heap = Pow2(30) /\ sizing.interval = Pow2(19)
    /\ sizing.max_cap = TABLE_FLOOR
    /\ sizing.initial_cap = TABLE_FLOOR
    /\ Saturated

\* the table has reached max_cap in more than three growths
C26_MoreThanThreeGrowths ==
    /\ Sized
    /\ Saturated
    /\ sizing.steps > 3

\* the table starts below 2048 entries
C26_StartsBelowFloor ==
    /\ Sized
    /\ sizing.initial_cap < TABLE_FLOOR
    /\ sizing.initial_cap = sizing.max_cap

\* ---- claims on the walk of cleanup_table
\* the step of a thread through lines 50-66
WalkStep == \E t \in Threads : th[t].pc = "walk" /\ th'[t].pc = "unlock_table"
\* epoch_diff of the walking thread: the epochs it loaded at the start
WalkDiff ==
    LET t == CHOOSE x \in Threads : th[x].pc = "walk"
    IN  th[t].target - th[t].current
\* the indices below _table_size whose referent is alive, in table order
Survivors ==
    SelectSeq([k \in 1 .. lt.size |-> k - 1],
              LAMBDA i : ~IsSameObject_NULL(table[i].ref))
\* the weak references of the entries whose referent is dead
DeadRefs ==
    {table[i].ref : i \in {j \in TableIdx : j < lt.size
                                            /\ IsSameObject_NULL(table[j].ref)}}

\* C27: after the walk the first _table_size entries are the survivors in
\* their order, each with its weak reference, tid and frames and with its
\* age raised by epoch_diff; the weak references of the dead entries are
\* released.
C27_SurvivorsKeptIntact ==
    [][WalkStep =>
         /\ lt'.size = Len(Survivors)
         /\ \A k \in 1 .. Len(Survivors) :
               table'[k - 1] = [table[Survivors[k]] EXCEPT !.age = @ + WalkDiff]
         /\ heap'.weak = heap.weak \ DeadRefs]_vars

\* C27, the part that holds: the survivors are compacted in their order
\* with tid, frames and the raised age, the dead references are released;
\* a survivor keeps its weak reference only if the walk has moved it.
C27_SurvivorsCompacted ==
    [][WalkStep =>
         /\ lt'.size = Len(Survivors)
         /\ \A k \in 1 .. Len(Survivors) :
               table'[k - 1] =
                   [table[Survivors[k]] EXCEPT
                       !.age = @ + WalkDiff,
                       !.ref = IF Survivors[k] = k - 1 THEN NULL ELSE @]
         /\ heap'.weak = heap.weak \ DeadRefs]_vars

\* a walk has moved a survivor down past a dead entry
C27_Witness ==
    /\ \E t \in Threads : th[t].pc = "unlock_table"
    /\ lt.size = 1
    /\ table[0].ref # NULL
    /\ table[0].ref \in heap.alive
    /\ table[0].age > 0
    /\ table[1].ref = NULL

\* a walk has left a survivor in place, without its weak reference
C27_SurvivorLostRef ==
    /\ \E t \in Threads : th[t].pc = "unlock_table"
    /\ lt.size >= 1
    /\ table[0].ref = NULL
    /\ table[0].frames \in heap.alive

(***************************************************************************)
(*               CONCURRENT CALLERS OF Contexts::getPage                   *)
(* getPage -> initialize, one action per step another caller can see.  A   *)
(* candidate page is named by the order of its allocation.                 *)
(***************************************************************************)
\* Calls of getPage explored in one run.
MaxPageCalls == 3

GpCallers == {"c1", "c2"}
GpIdle == [pc |-> "idle", pageIndex |-> 0, page |-> NULL, storage |-> NULL]

\* no caller yet, no page allocated (line 24: every slot of _pages is NULL)
GpInit ==
    /\ gp = [c \in GpCallers |-> GpIdle]
    /\ cand = [next |-> 0, freed |-> {}, calls |-> 0]

\* a compare-and-swap that stores whatever the slot holds
CasAlways(pageIndex) == TRUE
\* __sync_bool_compare_and_swap(&_pages[pageIndex], NULL, page) succeeds
CasSucceeds(pageIndex) == pages[pageIndex].ptr = NULL

\* line 61 and the acquire load of line 46
getPage_load(c, tid) ==
    /\ gp[c].pc = "idle"
    /\ cand.calls < MaxPageCalls
    /\ cand' = [cand EXCEPT !.calls = @ + 1]
    /\ gp' = [gp EXCEPT ![c] = [GpIdle EXCEPT
                  !.pageIndex = pageIndexOf(tid),
                  !.pc = IF pages[pageIndexOf(tid)].ptr = NULL
                         THEN "alloc" ELSE "return"]]
    /\ UNCHANGED <<pages, ctxBytes, ctxPages>>
    /\ GpFrame

\* lines 47-50: aligned_alloc gives a new page, memset zeroes it
getPage_alloc(c) ==
    /\ gp[c].pc = "alloc"
    /\ cand' = [cand EXCEPT !.next = @ + 1]
    /\ gp' = [gp EXCEPT ![c].page = cand.next + 1, ![c].pc = "cas"]
    /\ UNCHANGED <<pages, ctxBytes, ctxPages>>
    /\ GpFrame

\* line 51
getPage_cas(c) ==
    /\ gp[c].pc = "cas"
    /\ IF CasSucceeds(gp[c].pageIndex)
       THEN /\ pages' = [pages EXCEPT ![gp[c].pageIndex] = ZeroPage(gp[c].page)]
            /\ gp' = [gp EXCEPT ![c].pc = "count_bytes"]
       ELSE /\ pages' = pages
            /\ gp' = [gp EXCEPT ![c].pc = "free"]
    /\ UNCHANGED <<ctxBytes, ctxPages, cand>>
    /\ GpFrame

\* line 52: free(page)
getPage_free(c) ==
    /\ gp[c].pc = "free"
    /\ cand' = [cand EXCEPT !.freed = @ \cup {gp[c].page}]
    /\ gp' = [gp EXCEPT ![c].pc = "return"]
    /\ UNCHANGED <<pages, ctxBytes, ctxPages>>
    /\ GpFrame

\* line 54: CONTEXT_STORAGE_BYTES, in units of one page
getPage_count_bytes(c) ==
    /\ gp[c].pc = "count_bytes"
    /\ ctxBytes' = ctxBytes + 1
    /\ gp' = [gp EXCEPT ![c].pc = "count_pages"]
    /\ UNCHANGED <<pages, ctxPages, cand>>
    /\ GpFrame

\* line 55: CONTEXT_STORAGE_PAGES
getPage_count_pages(c) ==
    /\ gp[c].pc = "count_pages"
    /\ ctxPages' = ctxPages + 1
    /\ gp' = [gp EXCEPT ![c].pc = "return"]
    /\ UNCHANGED <<pages, ctxBytes, cand>>
    /\ GpFrame

\* line 63: .storage = _pages[pageIndex], handed to the caller (javaApi.cpp
\* wraps it in a direct buffer)
getPage_return(c) ==
    /\ gp[c].pc = "return"
    /\ gp' = [gp EXCEPT ![c].storage = pages[gp[c].pageIndex].ptr,
                        ![c].pc = "done"]
    /\ UNCHANGED <<pages, ctxBytes, ctxPages, cand>>
    /\ GpFrame

\* the caller goes on with its page
getPage_done(c) ==
    /\ gp[c].pc = "done"
    /\ gp' = [gp EXCEPT ![c] = GpIdle]
    /\ UNCHANGED <<pages, ctxBytes, ctxPages, cand>>
    /\ GpFrame

GpNext ==
    \/ \E c \in GpCallers, tid \in Tids : getPage_load(c, tid)
    \/ \E c \in GpCallers : getPage_alloc(c)
    \/ \E c \in GpCallers : getPage_cas(c)
    \/ \E c \in GpCallers : getPage_free(c)
    \/ \E c \in GpCallers : getPage_count_bytes(c)
    \/ \E c \in GpCallers : getPage_count_pages(c)
    \/ \E c \in GpCallers : getPage_return(c)
    \/ \E c \in GpCallers : getPage_done(c)

\* ---- claims on getPage
\* the pages installed in _pages, and the slots that hold one
Installed == {pages[p].ptr : p \in PageIdx} \ {NULL}
InstalledSlots == {p \in PageIdx : pages[p].ptr # NULL}
\* candidates whose caller has not reached the end of its compare-and-swap
\* branch
HeldCandidates == {gp[c].page : c \in {x \in GpCallers : gp[x].pc \in {"cas", "free"}}}
\* winners that have not bumped a counter yet
PendingBytes == {c \in GpCallers : gp[c].pc = "count_bytes"}
PendingPages == {c \in GpCallers : gp[c].pc \in {"count_bytes", "count_pages"}}

\* C28: of the candidates allocated for a page index one is installed, by
\* the winner of the compare-and-swap, and every other one is freed by its
\* own caller, which allocates nothing else; both counters are bumped once
\* per installed page; every caller gets the installed, non-null pointer;
\* and an installed page is never replaced or freed.
C28_OnePagePerIndex ==
    /\ [](/\ Installed \cap cand.freed = {}
          /\ Cardinality(Installed) = Cardinality(InstalledSlots)
          /\ Installed \cup cand.freed \cup HeldCandidates = 1 .. cand.next
          /\ Cardinality(Installed) + Cardinality(cand.freed)
                + Cardinality(HeldCandidates) = cand.next
          /\ cand.next <= cand.calls)
    /\ [](/\ ctxPages = Cardinality(Installed) - Cardinality(PendingPages)
          /\ ctxBytes = Cardinality(Installed) - Cardinality(PendingBytes))
    /\ [](\A c \in GpCallers :
             gp[c].pc = "done" => /\ gp[c].storage # NULL
                                  /\ gp[c].storage = pages[gp[c].pageIndex].ptr)
    /\ [][\A p \in PageIdx :
             pages[p].ptr # NULL => pages'[p].ptr = pages[p].ptr]_vars

\* two callers have raced for one page index: one candidate is installed,
\* the other is freed, and both callers hold the installed pointer
C28_Witness ==
    /\ \A c \in GpCallers : gp[c].pc = "done"
    /\ gp["c1"].pageIndex = gp["c2"].pageIndex
    /\ gp["c1"].storage = gp["c2"].storage
    /\ gp["c1"].storage \in Installed
    /\ cand.freed # {}
    /\ ctxPages = 1 /\ ctxBytes = 1

\* ---- claims on dump to another file
\* the control thread is about to return from a dump that has copied
DumpReturning == rth[RecControl].pc = "dump_unlock"
\* the step of the control thread that follows the chunk end of copyTo
CopyStep ==
    rth[RecControl].pc = "dump_copy" /\ rth'[RecControl].pc # "dump_copy"
\* the recording is one a constructor has just left on an empty file
FreshAtZero ==
    /\ recPtr # NULL
    /\ rec.chunk_start = 0
    /\ rec.base_id = 0
    /\ rec.bytes_written <= HEADER_SIZE + 1
    /\ closed = <<>>
    /\ Len(file) <= HEADER_SIZE + 1

\* C31: dump to another file closes the current chunk once, copies the
\* working file up to the end of that chunk, and returns with a fresh
\* recording at offset 0 (base_id and bytes_written reset) and the lock
\* released.
C31_DumpCopiesAndRestarts ==
    /\ [][CopyStep
             => /\ target' = SubSeq(file, 1, rth[RecControl].chunk_end)
                /\ rth'[RecControl].pc # "finishChunk"]_vars
    /\ [](DumpReturning => FreshAtZero)
    /\ [][DumpReturning /\ rth'[RecControl].pc = "idle"
             => recLock' = 0 /\ recPtr' # NULL]_vars

\* C31, the part that holds: the target gets the working file up to the
\* end of the chunk copyTo has closed; a new recording, when its file can
\* be opened, starts at offset 0 of the truncated file with base_id and
\* bytes_written reset; and the lock is free on return.
C31_CopyThenRestartIfOpened ==
    /\ [][CopyStep
             => target' = SubSeq(file, 1, rth[RecControl].chunk_end)]_vars
    /\ [](DumpReturning /\ recPtr # NULL => FreshAtZero)
    /\ [][DumpReturning /\ rth'[RecControl].pc = "idle" => recLock' = 0]_vars

\* a dump has copied a closed chunk and is about to return with a fresh
\* recording
C31_Witness ==
    /\ DumpReturning
    /\ FreshAtZero
    /\ Len(target) > HEADER_SIZE + 1
    /\ file # target

\* the chunk the target holds has been closed a second time, behind the
\* end the target was copied to
C31_ClosedTwice ==
    /\ rth[RecControl].pc = "dump_new"
    /\ Len(pools) >= 2
    /\ Len(file) > Len(target)

\* ---- claims on the stack trace records
\* A reader of the record layout (trace id, marker byte, frame num, and
\* per frame method key, line number, bci, frame type), from byte i on.
ReadByte(b, i) ==
    [closed |-> i <= Len(b), value |-> IF i <= Len(b) THEN b[i] ELSE 0,
     next |-> i + 1]
ReadFrame(b, i) ==
    LET key  == DecodeVar(b, i)
        line == DecodeVar(b, key.next)
        bci  == DecodeVar(b, line.next)
        type == ReadByte(b, bci.next)
    IN  [closed |-> key.closed /\ line.closed /\ bci.closed /\ type.closed,
         frame  |-> [key |-> key.value, line |-> line.value,
                     bci |-> bci.value, type |-> type.value],
         next   |-> type.next]
RECURSIVE ReadFrames(_, _, _)
ReadFrames(b, i, n) ==
    IF n = 0 \/ i > Len(b) THEN [closed |-> n = 0, frames |-> <<>>, next |-> i]
    ELSE LET f    == ReadFrame(b, i)
             rest == ReadFrames(b, f.next, n - 1)
         IN  [closed |-> f.closed /\ rest.closed,
              frames |-> <<f.frame>> \o rest.frames,
              next   |-> rest.next]
ReadTrace(b, i) ==
    LET id     == DecodeVar(b, i)
        marker == ReadByte(b, id.next)
        num  == DecodeVar(b, marker.next)
        frames == ReadFrames(b, num.next, num.value)
    IN  [closed |-> id.closed /\ marker.closed /\ num.closed /\ frames.closed,
         trace  |-> [id |-> id.value, marker |-> marker.value,
                     frames |-> frames.frames],
         next   |-> frames.next]
RECURSIVE ReadTraces(_, _, _)
ReadTraces(b, i, n) ==
    IF n = 0 \/ i > Len(b) THEN [closed |-> n = 0, traces |-> <<>>, next |-> i]
    ELSE LET t    == ReadTrace(b, i)
             rest == ReadTraces(b, t.next, n - 1)
         IN  [closed |-> t.closed /\ rest.closed,
              traces |-> <<t.trace>> \o rest.traces,
              next   |-> rest.next]
ReadStackTraces(b) ==
    LET type  == DecodeVar(b, 1)
        num == DecodeVar(b, type.next)
        all   == ReadTraces(b, num.next, num.value)
    IN  [closed |-> /\ type.closed /\ type.value = T_STACK_TRACE
                    /\ num.closed /\ all.closed /\ all.next = Len(b) + 1,
         traces |-> all.traces]

\* the record the layout has for the trace with the key id
ManagedTop(trace) ==
    Len(trace.frames) > 0 /\ trace.frames[Len(trace.frames)].type < FRAME_NATIVE
ExpectedMarker(trace) ==
    IF ManagedTop(trace)
    THEN (IF trace.frames[Len(trace.frames)].is_entry THEN 0 ELSE 1)
    ELSE trace.truncated
ExpectedFrame(f) ==
    IF f.type < FRAME_NATIVE
    THEN [key |-> f.key, line |-> 0,
          bci |-> IF f.bci.flag THEN 0 ELSE f.bci.low, type |-> f.bci.type]
    ELSE [key |-> f.key, line |-> 0, bci |-> f.bci.low, type |-> f.type]
ExpectedTrace(trace, id) ==
    [id |-> id, marker |-> ExpectedMarker(trace),
     frames |-> [j \in 1 .. Len(trace.frames) |-> ExpectedFrame(trace.frames[j])]]
TracesWritten == bcall.op = "writeStackTraces"
\* the bytes read back as the records of the traces written
ReadsBack ==
    LET r == ReadStackTraces(buf)
    IN  /\ r.closed
        /\ r.traces = [id \in 1 .. Len(bcall.s) |-> ExpectedTrace(bcall.s[id], id)]

\* C32: every stack trace record is (trace id, one marker byte, frame
\* count, frames), the marker written once for every trace, one without
\* frames included; the marker is is_entry ? 0 : 1 for a managed last
\* frame and the truncated flag otherwise.
C32_TraceRecordLayout ==
    TracesWritten => ReadsBack

\* C32, for traces that have a frame: the layout and the marker as above.
C32_LayoutOfNonEmptyTraces ==
    TracesWritten /\ (\A id \in 1 .. Len(bcall.s) : Len(bcall.s[id].frames) > 0)
       => ReadsBack

\* two traces read back: one ends in a managed entry frame, the other, a
\* truncated one, in a native frame
C32_Witness ==
    /\ TracesWritten /\ ReadsBack
    /\ Len(bcall.s) = 2
    /\ ManagedTop(bcall.s[1]) /\ ExpectedMarker(bcall.s[1]) = 0
    /\ ~ManagedTop(bcall.s[2]) /\ Len(bcall.s[2].frames) = 2
    /\ bcall.s[2].truncated = 1

\* a trace without frames is written as its id and a frame count of 0,
\* with no byte between them
C32_EmptyTraceHasNoMarker ==
    /\ TracesWritten
    /\ Len(bcall.s) = 1 /\ bcall.s[1].frames = <<>> /\ bcall.s[1].truncated = 1
    /\ buf = putVar64(putVar64(putVar64(putVar64(<<>>, T_STACK_TRACE), 1), 1), 0)

(***************************************************************************)
(*                    NATIVE LIBRARY EVENTS OF A RECORDING                 *)
(* Recording::writeNativeLibraries, called by the constructor and by       *)
(* every finishChunk, beside a thread that adds libraries.                 *)
(***************************************************************************)
\* Chunks one recording closes.
MaxChunks == 2

\* Recording::Recording, line 491: _recorded_lib_count = 0; the call of
\* line 492 comes next
NlInit ==
    nl = [pc |-> "call", caller |-> "Recording", recorded_lib_count |-> 0,
          native_lib_count |-> 0, i |-> 0, published |-> 0, events |-> <<>>,
          chunks |-> 0]

\* line 948: the count the loop ran to
watermark == nl.native_lib_count

\* lines 931-937: native_libs.count(), once
writeNativeLibraries ==
    /\ nl.pc = "call"
    /\ nl' = [nl EXCEPT !.pc = "loop",
                        !.native_lib_count = libCount,
                        !.published = libCount,
                        !.i = nl.recorded_lib_count]
    /\ NlFrame

\* lines 937-946: the event of native_libs[i]
writeNativeLibraries_loop ==
    /\ nl.pc = "loop"
    /\ nl.i < nl.native_lib_count
    /\ \E lib \in (IF nl.i < MAX_NATIVE_LIBS THEN {libs[nl.i]} ELSE WildLoads) :
          nl' = [nl EXCEPT !.i = @ + 1,
                           !.events = Append(@, [index |-> nl.i, lib |-> lib,
                                                 chunk |-> nl.chunks])]
    /\ NlFrame

\* line 948, and the return to the constructor or to finishChunk
writeNativeLibraries_return ==
    /\ nl.pc = "loop"
    /\ nl.i >= nl.native_lib_count
    /\ nl' = [nl EXCEPT !.recorded_lib_count = watermark,
                        !.pc = IF nl.caller = "Recording" THEN "recording"
                               ELSE "finishChunk"]
    /\ NlFrame

\* Recording::finishChunk, line 522
nl_finishChunk ==
    /\ nl.pc = "recording"
    /\ nl.chunks < MaxChunks
    /\ nl' = [nl EXCEPT !.pc = "call", !.caller = "finishChunk"]
    /\ NlFrame

\* the rest of finishChunk: the chunk is closed
nl_chunk_end ==
    /\ nl.pc = "finishChunk"
    /\ nl' = [nl EXCEPT !.pc = "recording", !.chunks = @ + 1]
    /\ NlFrame

NlNext ==
    \/ \E lib \in LibPtrs : addStore(lib)
    \/ addPublish
    \/ writeNativeLibraries
    \/ writeNativeLibraries_loop
    \/ writeNativeLibraries_return
    \/ nl_finishChunk
    \/ nl_chunk_end

\* ---- claims on the native library events
\* the event at place k is that of index k - 1: none twice, none skipped
EventsInOrder == \A k \in 1 .. Len(nl.events) : nl.events[k].index = k - 1
\* the event of an index is that of the library published there
EventOfLibrary(k) == nl.events[k].lib = libOrder[k]
\* the step that returns from writeNativeLibraries
NlReturn == nl.pc = "loop" /\ nl'.pc # "loop"

\* C33: every published library gets one native library event: a call
\* emits the indices from the watermark up to the count it loaded and moves
\* the watermark there, so no index is emitted twice or skipped while
\* libraries are added, and what was published when a chunk close began is
\* emitted by the end of that close.
C33_OneEventPerLibrary ==
    /\ [](EventsInOrder)
    /\ [](\A k \in 1 .. Len(nl.events) : EventOfLibrary(k))
    /\ [][NlReturn => /\ nl'.recorded_lib_count = nl.native_lib_count
                      /\ Len(nl.events) = nl.native_lib_count]_vars
    /\ [](nl.pc = "finishChunk" => Len(nl.events) >= nl.published)
    /\ [](nl.pc \in {"recording", "finishChunk"}
             => Len(nl.events) = nl.recorded_lib_count)

\* C33, for the libraries the array has room for: as above, the event of
\* an index below MAX_NATIVE_LIBS being that of the library published
\* there.
C33_OneEventWithinCapacity ==
    /\ [](EventsInOrder)
    /\ [](\A k \in 1 .. Len(nl.events) : k <= MAX_NATIVE_LIBS => EventOfLibrary(k))
    /\ [][NlReturn => /\ nl'.recorded_lib_count = nl.native_lib_count
                      /\ Len(nl.events) = nl.native_lib_count]_vars
    /\ [](nl.pc = "finishChunk" => Len(nl.events) >= nl.published)
    /\ [](nl.pc \in {"recording", "finishChunk"}
             => Len(nl.events) = nl.recorded_lib_count)

\* a library was published while the second chunk's call was in its loop:
\* it is left for the next call; the libraries before it have their events
\* in three different calls
C33_Witness ==
    /\ nl.pc = "finishChunk" /\ nl.chunks = 1
    /\ Len(nl.events) = 3 /\ libCount = 3
    /\ nl.events[1].chunk = 0 /\ nl.events[2].chunk = 0 /\ nl.events[3].chunk = 1
    /\ \A k \in 1 .. 3 : EventOfLibrary(k)
    /\ libWr.pc = "publish"

\* the event of the index behind the array is not that of the library
\* published there
C33_EventPastArray ==
    /\ Len(nl.events) > MAX_NATIVE_LIBS
    /\ ~EventOfLibrary(MAX_NATIVE_LIBS + 1)

\* ---- claims on the entries a walk of the table can observe
\* tracker t has claimed index i and has not stored the entry yet
Filling(t, i) == th[t].pc = "fill" /\ th[t].idx = i
\* entry i is below _table_size while its tracker is still to fill it
ClaimedUnfilled(i) == i < lt.size /\ \E t \in Trackers : Filling(t, i)
\* a thread is inside the loop of flush_table, or of cleanup_table
InFlushLoop == \E t \in Flushers : th[t].pc = "loop"
InCleanupLoop == \E t \in Threads : th[t].pc = "walk"

\* C34: neither the loop of flush_table nor that of cleanup_table runs
\* over an entry below _table_size that a track call has claimed and not
\* yet filled.
C34_WalksSeeFilledEntries ==
    InFlushLoop \/ InCleanupLoop => \A i \in TableIdx : ~ClaimedUnfilled(i)

\* C34, the part that holds: the loop of cleanup_table, under the
\* exclusive lock, never runs beside a track call that holds an index.
C34_CleanupSeesFilledEntries ==
    InCleanupLoop => \A t \in Trackers : th[t].pc \notin {"claim", "fill", "unlock"}

\* cleanup_table walks a table with an entry while a tracker waits
C34_Witness ==
    /\ InCleanupLoop
    /\ lt.size > 0
    /\ \E t \in Trackers : th[t].pc = "retry"

\* flush_table is in its loop while entry 0, below _table_size, holds
\* what malloc left there
C34_FlushReadsUnfilled ==
    /\ InFlushLoop
    /\ ClaimedUnfilled(0)
    /\ table[0].ref = Uninit

\* ---- claims on the allocation of the table
\* the step of realloc inside track
ReallocStep == \E t \in Trackers : th[t].pc = "realloc" /\ th'[t].pc = "growUnlock"

\* C35: _table_cap never exceeds the number of entries allocated, also
\* after a growth whose realloc failed, and no track call stores an entry
\* outside the allocated table.
C35_CapWithinAllocation ==
    /\ ~TrackingDisabled => lt.cap <= lt.allocated
    /\ \A t \in Trackers : th[t].pc = "fill" => th[t].idx < lt.allocated

\* C35, the part that holds: on a tracker that stores samples
\* _table_cap is the allocated size until a realloc fails, and a realloc
\* that succeeds keeps the two equal.
C35_CapLeavesAllocationOnlyOnFailure ==
    [][/\ lt.initialized /\ ~TrackingDisabled
       /\ lt.cap = lt.allocated /\ lt'.cap # lt'.allocated
       => /\ ReallocStep
          /\ lt'.allocated = lt.allocated
          /\ lt'.cap = newcap(lt.cap, lt.max_cap)]_vars

\* the table has grown: cap and allocation moved together
C35_Witness ==
    /\ lt.cap = MAX_TRACKING_TABLE_SIZE
    /\ lt.allocated = lt.cap
    /\ lt.size = lt.cap

\* after a realloc that failed a tracker stores at an index the block
\* does not have
C35_StoresOutsideTable ==
    /\ lt.cap > lt.allocated
    /\ \E t \in Trackers : th[t].pc = "fill" /\ th[t].idx >= lt.allocated

\* ---- claims on the capacity of the array of libraries
\* C39: add never stores beyond the capacity of _libs: the count stays at
\* or below MAX_NATIVE_LIBS and every store of add goes to an index below
\* MAX_NATIVE_LIBS.
C39_AddWithinCapacity ==
    /\ libCount <= MAX_NATIVE_LIBS
    /\ libOob = 0
    /\ libWr.pc = "publish" => libWr.index < MAX_NATIVE_LIBS

\* C39, the part that holds: the first MAX_NATIVE_LIBS calls of add store
\* inside _libs and leave the count within the capacity.
C39_FirstAddsWithinCapacity ==
    libAdds <= MAX_NATIVE_LIBS =>
        /\ libCount <= MAX_NATIVE_LIBS
        /\ libOob = 0
        /\ libWr.pc = "publish" => libWr.index < MAX_NATIVE_LIBS

\* the array is full and every slot holds a library
C39_Witness ==
    /\ libCount = MAX_NATIVE_LIBS
    /\ libWr.pc = "idle"
    /\ \A i \in 0 .. (MAX_NATIVE_LIBS - 1) : libs[i] # NULL

\* add called on a full array: the store went to index MAX_NATIVE_LIBS and
\* the count published is MAX_NATIVE_LIBS + 1
C39_StorePastArray ==
    /\ libOob = 1
    /\ libCount = MAX_NATIVE_LIBS + 1

\* ---- claims on the age of a tracked entry
\* entry i holds what a finished track call stored for a sampled object
Tracked(i) ==
    /\ i < lt.size
    /\ i < lt.allocated
    /\ ~ClaimedUnfilled(i)
    /\ table[i].frames \in Objects
\* GarbageCollectionFinish events since the entry of object o was stored
GCsSince(o) == lt.gc_epoch - born[o]

\* C40: the age of a tracked entry never exceeds the number of collections
\* that finished after the entry was tracked: a collection that finished
\* before the entry was stored does not age it, even if the cleanup for
\* that collection runs later.
C40_AgeWithinGCsSinceTracked ==
    \A i \in TableIdx : Tracked(i) => table[i].age <= GCsSince(table[i].frames)

\* C40, the part that holds: the age of a tracked entry never exceeds the
\* number of collections that have finished at all.
C40_AgeWithinGCs ==
    \A i \in TableIdx :
       Tracked(i) => table[i].age >= 0 /\ table[i].age <= lt.gc_epoch

\* an entry that a collection after its store has aged
C40_Witness ==
    \E i \in TableIdx :
       /\ Tracked(i)
       /\ table[i].age = 1
       /\ GCsSince(table[i].frames) = 1

\* an entry stored after the one collection so far, and aged by it
C40_AgedByEarlierGC ==
    \E i \in TableIdx :
       /\ Tracked(i)
       /\ lt.gc_epoch = 1
       /\ born[table[i].frames] = 1
       /\ table[i].age = 1

(***************************************************************************)
(*                    OCCUPANCY OF THE RECORDER BUFFERS                    *)
(* The write cursor of _buf[0] and of _cpu_monitor_buf, in bytes, with the *)
(* sizes of the source (the byte model of the encoders above scales the    *)
(* strings down; here only the number of bytes written counts).  A value   *)
(* is given by its length in bits, a string by its strlen.                 *)
(***************************************************************************)
\* Records written to _buf[0] between two flushes.
MaxRecords == 9
\* Bytes writeMetadata writes (the strings and the element tree of
\* JfrMetadata).
MetadataBytes == 6000
\* Bits of a thread id, and of _start_ticks, TSC::ticks() and the other
\* 64-bit fields of an event.
TidBits == 22
TickBits == 64
\* Bits of a JfrType id and of a category.
TypeBits == 7
\* strlen of the strings handed to the writers.
StringLengths == {16, 9000}
\* strlen of the key of a setting (a literal of writeSettings) and of its
\* value (an argument of the profiler).
KeyLengths == {13}
ValueLengths == {16, 4000, 9000}

BUFFER_SIZE == 1024
BUFFER_LIMIT_BYTES == BUFFER_SIZE - 128
RECORDING_BUFFER_SIZE == 65536
RECORDING_BUFFER_LIMIT == RECORDING_BUFFER_SIZE - 4096
MAX_STRING_BYTES == 8191
\* sizeof(int), the _offset field in front of _data
SIZEOF_INT == 4
\* line 307: the bytes of Buffer::_data; line 418: those of a
\* RecordingBuffer, whose _buf follows _data
BufferCapacity == BUFFER_SIZE - SIZEOF_INT
RecordingBufferCapacity == BufferCapacity + (RECORDING_BUFFER_SIZE - BUFFER_SIZE)

\* bits of a length
RECURSIVE BitLength(_)
BitLength(n) == IF n = 0 THEN 0 ELSE 1 + BitLength(n \div 2)

\* Buffer::putVar32, lines 365-371: the bytes written for a value of the
\* given bit length (v > 0x7f: more than 7 bits; v >>= 7)
RECURSIVE Var32Bytes(_)
Var32Bytes(bits) == IF bits > 7 THEN 1 + Var32Bytes(bits - 7) ELSE 1
\* Buffer::putVar64, lines 373-386 (v > 0x1fffff: more than 21 bits; three
\* bytes a round, and the return after the third round)
RECURSIVE Var64Bytes(_, _)
Var64Bytes(bits, iter) ==
    IF bits > 21
    THEN IF iter + 1 = 3 THEN 3 ELSE 3 + Var64Bytes(bits - 21, iter + 1)
    ELSE Var32Bytes(bits)
\* line 393: len < MAX_STRING_LENGTH ? len : MAX_STRING_LENGTH
CappedBytes(len) == IF len < MAX_STRING_BYTES THEN len ELSE MAX_STRING_BYTES
\* Buffer::putUtf8(v), lines 388-401: tag, length, bytes
Utf8Bytes(len) == 1 + Var32Bytes(BitLength(CappedBytes(len))) + CappedBytes(len)

OccInit ==
    occ = [pc |-> "writeHeader", offset |-> 0, end |-> 0, records |-> 0,
           cpu |-> 0, cpuEnd |-> 0, last |-> "none"]

\* a record of n bytes goes to _buf[0]: the cursor after it, which is
\* kept as the end of the latest record
Recorded(o, n, kind) ==
    [o EXCEPT !.offset = @ + n,
              !.end = o.offset + n,
              !.records = @ + 1,
              !.last = kind]
\* Recording::flush(Buffer*), lines 679-685: buf->reset()
Flushed(o) == [o EXCEPT !.offset = 0, !.records = 0]
\* Recording::flushIfNeeded, lines 687-691
FlushedIfNeeded(o, limit) == IF o.offset >= limit THEN Flushed(o) ELSE o
\* bytes written behind the buffer: what the recorder does from then on is
\* not defined, and the model follows it no further
Overrun(o) == o.end > RecordingBufferCapacity \/ o.cpuEnd > BufferCapacity
Step(o) == IF Overrun(o) THEN [o EXCEPT !.pc = "overrun"] ELSE o
CanWrite == occ.records < MaxRecords

\* Recording::Recording, lines 479-480: writeHeader (68 bytes) and
\* writeMetadata
writeHeaderAndMetadata ==
    /\ occ.pc = "writeHeader"
    /\ occ' = Step([Recorded(occ, 68 + MetadataBytes, "metadata")
                       EXCEPT !.pc = "writeSettings"])
    /\ OccFrame

\* the bytes of one active-setting event, lines 818-826
SettingBytes(key, value) ==
    5 + Var64Bytes(TypeBits, 0) + Var64Bytes(TickBits, 0) + 1
      + Var64Bytes(TidBits, 0) + 1 + Var64Bytes(TypeBits, 0)
      + Utf8Bytes(key) + Utf8Bytes(value)
\* Recording::writeStringSetting, lines 817-829, called by writeSettings
\* with a value taken from the arguments of the profiler
writeStringSetting(key, value) ==
    /\ occ.pc = "writeSettings"
    /\ CanWrite
    /\ occ' = Step(FlushedIfNeeded(Recorded(occ, SettingBytes(key, value), "setting"),
                                   RECORDING_BUFFER_LIMIT))
    /\ OccFrame

\* Recording::writeOsCpuInfo, lines 846-872: two events, the strings out
\* of a buffer of 512 bytes; no flush
writeOsCpuInfo(str, machine, description) ==
    /\ occ.pc = "writeSettings"
    /\ occ' = Step([Recorded(occ,
                        5 + Var64Bytes(TypeBits, 0) + Var64Bytes(TickBits, 0)
                          + Utf8Bytes(str)
                          + 5 + Var64Bytes(TypeBits, 0) + Var64Bytes(TickBits, 0)
                          + Utf8Bytes(machine) + Utf8Bytes(description) + 1
                          + 2 * Var64Bytes(TidBits, 0),
                        "os")
                       EXCEPT !.pc = "writeJvmInfo"])
    /\ OccFrame

\* Recording::writeJvmInfo, lines 874-902: the flush comes first, with five
\* strings of room
writeJvmInfo(name, version, args, flags, command) ==
    /\ occ.pc = "writeJvmInfo"
    /\ occ' = Step([Recorded(FlushedIfNeeded(occ, RECORDING_BUFFER_LIMIT
                                                    - 5 * MAX_STRING_BYTES),
                        5 + Var64Bytes(TypeBits, 0) + Var64Bytes(TickBits, 0)
                          + Utf8Bytes(name) + Utf8Bytes(version) + Utf8Bytes(args)
                          + Utf8Bytes(flags) + Utf8Bytes(command)
                          + Var64Bytes(TickBits, 0) + Var64Bytes(TidBits, 0),
                        "jvm")
                       EXCEPT !.pc = "writeSystemProperties"])
    /\ OccFrame

\* Recording::writeSystemProperties, lines 914-921: one property, the flush
\* first, with two strings of room
writeSystemProperty(key, value) ==
    /\ occ.pc = "writeSystemProperties"
    /\ CanWrite
    /\ occ' = Step(Recorded(FlushedIfNeeded(occ, RECORDING_BUFFER_LIMIT
                                                   - 2 * MAX_STRING_BYTES),
                       5 + Var64Bytes(TypeBits, 0) + Var64Bytes(TickBits, 0)
                         + Utf8Bytes(key) + Utf8Bytes(value),
                       "property"))
    /\ OccFrame

\* the loop of writeSystemProperties ends; writeNativeLibraries is next
\* (in the constructor)
writeSystemProperties_return ==
    /\ occ.pc = "writeSystemProperties"
    /\ occ' = [occ EXCEPT !.pc = "writeNativeLibraries"]
    /\ OccFrame

\* Recording::writeNativeLibraries, lines 937-946: one library, the flush
\* first, with one string of room
writeNativeLibrary(name) ==
    /\ occ.pc \in {"writeNativeLibraries", "finishChunk"}
    /\ CanWrite
    /\ occ' = Step(Recorded(FlushedIfNeeded(occ, RECORDING_BUFFER_LIMIT
                                                   - MAX_STRING_BYTES),
                       5 + Var64Bytes(TypeBits, 0) + Var64Bytes(TickBits, 0)
                         + Utf8Bytes(name) + 2 * Var64Bytes(TickBits, 0),
                       "library"))
    /\ OccFrame

\* line 496: flush(_buf) at the end of the constructor
Recording_flush ==
    /\ occ.pc = "writeNativeLibraries"
    /\ occ' = [Flushed(occ) EXCEPT !.pc = "recording"]
    /\ OccFrame

\* FlightRecorder::recordEvent, lines 1406-1436, for the largest event
\* (recordMonitorBlocked, lines 1252-1267: nine values and two bytes), and
\* the flushIfNeeded of line 1433
recordEvent ==
    /\ occ.pc = "recording"
    /\ CanWrite
    /\ occ' = Step(FlushedIfNeeded(Recorded(occ, 2 + 9 * Var64Bytes(TickBits, 0),
                                           "event"),
                                   RECORDING_BUFFER_LIMIT))
    /\ OccFrame

\* Recording::cpuMonitorCycle, lines 609-610: recordCpuLoad (lines
\* 1283-1291) into _cpu_monitor_buf, then flushIfNeeded with BUFFER_LIMIT
cpuMonitorCycle ==
    /\ occ.pc = "recording"
    /\ LET n   == 1 + Var64Bytes(TypeBits, 0) + Var64Bytes(TickBits, 0) + 3 * 4
           end == occ.cpu + n
       IN occ' = Step([occ EXCEPT
                          !.cpu = IF end >= BUFFER_LIMIT_BYTES THEN 0 ELSE end,
                          !.cpuEnd = end,
                          !.last = "cpu"])
    /\ OccFrame

\* Recording::finishChunk, lines 520-522: flush(&_cpu_monitor_buf), then
\* writeNativeLibraries
finishChunk_begin ==
    /\ occ.pc = "recording"
    /\ occ' = [occ EXCEPT !.cpu = 0, !.pc = "finishChunk"]
    /\ OccFrame

\* lines 531-536 and writeCpool up to writeThreads (lines 951-1005): the
\* flush of every buffer, then the head of the constant pool, the frame
\* types, the thread states and the head of the threads (126 bytes, and
\* the values _start_ticks and threads.size())
writeCpool_begin ==
    /\ occ.pc = "finishChunk"
    /\ occ' = Step([Recorded(Flushed(occ),
                            126 + Var64Bytes(TickBits, 0) + Var64Bytes(TidBits, 0),
                            "cpool")
                       EXCEPT !.pc = "writeThreads"])
    /\ OccFrame

\* Recording::writeThreads, lines 1008-1027: one thread; the name goes in
\* twice when the thread has a Java id
writeThread(name, has_id) ==
    /\ occ.pc = "writeThreads"
    /\ CanWrite
    /\ occ' = Step(FlushedIfNeeded(
                       Recorded(occ,
                               2 * Var64Bytes(TidBits, 0) + Utf8Bytes(name)
                                 + (IF has_id THEN Utf8Bytes(name) ELSE 1)
                                 + Var64Bytes(IF has_id THEN TickBits ELSE 0, 0),
                               "thread"),
                       RECORDING_BUFFER_LIMIT))
    /\ OccFrame

\* the loop of writeThreads ends; the sections up to writeSymbols follow
\* (their entries are a few values each, flushed entry by entry)
writeThreads_return ==
    /\ occ.pc = "writeThreads"
    /\ occ' = [occ EXCEPT !.pc = "writeSymbols"]
    /\ OccFrame

\* Recording::writeConstantPoolSection, lines 1142-1146: one symbol or
\* string
writeSymbol(len) ==
    /\ occ.pc = "writeSymbols"
    /\ CanWrite
    /\ occ' = Step(FlushedIfNeeded(
                       Recorded(occ, Var64Bytes(TickBits, 0) + Utf8Bytes(len), "symbol"),
                       RECORDING_BUFFER_LIMIT))
    /\ OccFrame

\* line 537: flush(_buf) after writeCpool; the recording goes on
finishChunk_flush ==
    /\ occ.pc = "writeSymbols"
    /\ occ' = [Flushed(occ) EXCEPT !.pc = "recording"]
    /\ OccFrame

OccNext ==
    \/ writeHeaderAndMetadata
    \/ \E key \in KeyLengths, value \in ValueLengths : writeStringSetting(key, value)
    \/ \E str, machine, description \in {16, 511} :
          writeOsCpuInfo(str, machine, description)
    \/ \E name, version, args, flags, command \in StringLengths :
          writeJvmInfo(name, version, args, flags, command)
    \/ \E key, value \in StringLengths : writeSystemProperty(key, value)
    \/ writeSystemProperties_return
    \/ \E name \in StringLengths : writeNativeLibrary(name)
    \/ Recording_flush
    \/ recordEvent
    \/ cpuMonitorCycle
    \/ finishChunk_begin
    \/ writeCpool_begin
    \/ \E name \in StringLengths, has_id \in BOOLEAN : writeThread(name, has_id)
    \/ writeThreads_return
    \/ \E len \in StringLengths : writeSymbol(len)
    \/ finishChunk_flush

\* ---- claims on the room of the buffers
\* C38: the write cursor of a recorder buffer never exceeds the capacity of
\* the buffer: with strings capped at MAX_STRING_LENGTH every record
\* written after a flushIfNeeded check (samples, settings, thread records,
\* JVM information, system properties, native libraries, entries of the
\* constant pool, CPU load) fits between the flush threshold and the end.
C38_CursorWithinCapacity ==
    /\ occ.end <= RecordingBufferCapacity
    /\ occ.cpuEnd <= BufferCapacity

\* C38, the part that holds: the records whose flush comes first, with room
\* for their strings, the sample events and the CPU load stay inside the
\* buffer.
C38_RoomedRecordsFit ==
    occ.last \in {"os", "jvm", "property", "library", "event", "cpu", "cpool",
                  "metadata"}
        => C38_CursorWithinCapacity

\* a library record that ends above the flush threshold of its writer, and
\* inside the buffer
C38_Witness ==
    /\ occ.last = "library"
    /\ occ.end > RECORDING_BUFFER_LIMIT - MAX_STRING_BYTES
    /\ occ.end <= RecordingBufferCapacity

\* a thread record with its name written twice ends behind the buffer
C38_ThreadRecordOverruns ==
    /\ occ.last = "thread"
    /\ occ.end > RecordingBufferCapacity

\* a setting with a long value ends behind the buffer
C38_SettingOverruns ==
    /\ occ.last = "setting"
    /\ occ.end > RecordingBufferCapacity

(***************************************************************************)
(*          CONCURRENT CALLERS OF stop, flush AND dump                     *)
(* FlightRecorder::stop, flush and dump called from two threads on a       *)
(* recorder that has been started; the work on the Recording itself is     *)
(* one step.                                                               *)
(***************************************************************************)
\* Calls of FlightRecorder::start made after the first one.
MaxStarts == 1

Callers == {"a", "b"}
CtlIdle == [pc |-> "idle", op |-> "none"]

CtlInit ==
    /\ ctl = [c \in Callers |-> CtlIdle]
    /\ ctlStarts = 0

\* the recorder after start(args, reset) on an empty file, every write
\* complete: the lock is free and _rec is set
RecStarted ==
    LET s == Recording(<<>>, <<0, 0>>, 0, HEADER_SIZE + 1) IN
    /\ recLock = 0
    /\ recPtr = 1
    /\ recArgs = <<0, 0>>
    /\ rec = s.rec
    /\ file = s.file
    /\ filePos = s.pos
    /\ clock = 0
    /\ rth = [t \in RecThreads |-> RIdle]
    /\ closed = <<>>
    /\ pools = <<>>
    /\ classMap = {}
    /\ ioFaults = 0
    /\ recOps = 0
    /\ target = <<>>

InitStarted ==
    /\ CtxInit
    /\ CCQuiet
    /\ LibsInit
    /\ LTInit
    /\ RecStarted
    /\ BufInit
    /\ CapInit
    /\ GpInit
    /\ NlInit
    /\ CtlInit
    /\ OccInit

\* the check if (_rec != NULL) of stop, flush or dump (lines 1339, 1348,
\* 1372); the call goes on to its lock() when it finds a recording
ctl_call(c, op) ==
    /\ ctl[c].pc = "idle"
    /\ recPtr # NULL
    /\ ctl' = [ctl EXCEPT ![c] = [pc |-> "lock", op |-> op]]
    /\ UNCHANGED <<recLock, recPtr, ctlStarts>>
    /\ CtlFrame

\* _rec_lock.lock() of lines 1340, 1350 and 1373
ctl_lock(c) ==
    /\ ctl[c].pc = "lock"
    /\ recLock = 0
    /\ recLock' = 1
    /\ ctl' = [ctl EXCEPT ![c].pc = "locked"]
    /\ UNCHANGED <<recPtr, ctlStarts>>
    /\ CtlFrame

\* stop, lines 1342-1344: delete _rec; _rec = NULL; and the return, the
\* lock still held
ctl_stop(c) ==
    /\ ctl[c].pc = "locked" /\ ctl[c].op = "stop"
    /\ recPtr' = NULL
    /\ recLock' = recLock
    /\ ctl' = [ctl EXCEPT ![c] = CtlIdle]
    /\ UNCHANGED ctlStarts
    /\ CtlFrame

\* flush, line 1374: _rec->switchChunk(); a call through NULL when the
\* recording has gone meanwhile
ctl_switchChunk(c) ==
    /\ ctl[c].pc = "locked" /\ ctl[c].op = "flush"
    /\ ctl' = [ctl EXCEPT ![c].pc = IF recPtr = NULL THEN "fault" ELSE "unlock"]
    /\ UNCHANGED <<recLock, recPtr, ctlStarts>>
    /\ CtlFrame

\* dump to another file, lines 1353-1360: copyTo, delete _rec,
\* newRecording(true)
ctl_dump_copy(c, openOk) ==
    /\ ctl[c].pc = "locked" /\ ctl[c].op = "dump"
    /\ IF recPtr = NULL
       THEN /\ ctl' = [ctl EXCEPT ![c].pc = "fault"]
            /\ recPtr' = recPtr
       ELSE /\ ctl' = [ctl EXCEPT ![c].pc = "unlock"]
            /\ recPtr' = IF openOk THEN 1 ELSE NULL
    /\ UNCHANGED <<recLock, ctlStarts>>
    /\ CtlFrame

\* dump to the recording's own file, line 1362: flush(), whose check of
\* _rec leads to lock() on the lock dump holds, or to the return
ctl_dump_flush(c) ==
    /\ ctl[c].pc = "locked" /\ ctl[c].op = "dump_same"
    /\ ctl' = [ctl EXCEPT ![c].pc = IF recPtr = NULL THEN "unlock" ELSE "lock_again"]
    /\ UNCHANGED <<recLock, recPtr, ctlStarts>>
    /\ CtlFrame

\* lock() of flush inside dump, then switchChunk and unlock (lines 1373-1375)
ctl_dump_flush_lock(c) ==
    /\ ctl[c].pc = "lock_again"
    /\ recLock = 0
    /\ recLock' = 0
    /\ ctl' = [ctl EXCEPT ![c].pc = "unlock"]
    /\ UNCHANGED <<recPtr, ctlStarts>>
    /\ CtlFrame

\* _rec_lock.unlock() of flush and dump (lines 1364, 1375), and the return
ctl_unlock(c) ==
    /\ ctl[c].pc = "unlock"
    /\ recLock' = recLock - 1
    /\ ctl' = [ctl EXCEPT ![c] = CtlIdle]
    /\ UNCHANGED <<recPtr, ctlStarts>>
    /\ CtlFrame

\* FlightRecorder::start by the profiler once the recorder has no
\* recording: newRecording, then unlock (lines 1323-1324)
ctl_start(openOk) ==
    /\ recPtr = NULL
    /\ ctlStarts < MaxStarts
    /\ ctlStarts' = ctlStarts + 1
    /\ recPtr' = IF openOk THEN 1 ELSE NULL
    /\ recLock' = recLock - 1
    /\ UNCHANGED ctl
    /\ CtlFrame

\* the steps of caller c once it is inside a call
CtlStep(c) ==
    \/ ctl_stop(c)
    \/ ctl_switchChunk(c)
    \/ \E openOk \in BOOLEAN : ctl_dump_copy(c, openOk)
    \/ ctl_dump_flush(c)
    \/ ctl_unlock(c)
\* its steps that wait for the lock
CtlLockStep(c) == ctl_lock(c) \/ ctl_dump_flush_lock(c)

CtlNext ==
    \/ \E c \in Callers, op \in {"stop", "flush", "dump", "dump_same"} : ctl_call(c, op)
    \/ \E c \in Callers : ctl_lock(c)
    \/ \E c \in Callers : ctl_stop(c)
    \/ \E c \in Callers : ctl_switchChunk(c)
    \/ \E c \in Callers, openOk \in BOOLEAN : ctl_dump_copy(c, openOk)
    \/ \E c \in Callers : ctl_dump_flush(c)
    \/ \E c \in Callers : ctl_dump_flush_lock(c)
    \/ \E c \in Callers : ctl_unlock(c)
    \/ \E openOk \in BOOLEAN : ctl_start(openOk)

SpecStop == InitStarted /\ [][CtlNext]_vars

\* A thread inside a call keeps running, and a thread that spins on the
\* lock gets it if the lock is free again and again.
FairStop ==
    /\ SpecStop
    /\ \A c \in Callers : WF_vars(CtlStep(c)) /\ SF_vars(CtlLockStep(c))

\* ---- claims on the return of stop, flush and dump
InCall(c) == ctl[c].pc # "idle"
\* caller c spins in lock() while no thread is left to release the lock
WaitsForever(c) ==
    /\ ctl[c].pc \in {"lock", "lock_again"}
    /\ recLock # 0
    /\ \A d \in Callers \ {c} : ~InCall(d)

\* C37: every call of flush, dump or stop returns, whatever a concurrent
\* stop does: no call waits for the lock for ever, and none ends in a call
\* through _rec after the recording is gone.
C37_CallsReturn == \A c \in Callers : InCall(c) ~> ~InCall(c)

\* flush found a recording; stop has returned since, with the lock held
C37_FlushWaitsForever ==
    \E c \in Callers :
       /\ ctl[c].op = "flush" /\ WaitsForever(c)
       /\ recPtr = NULL /\ recLock = 1

\* a restart that could not open the file has released the lock, and the
\* flush that waited calls switchChunk through NULL
C37_FlushThroughNull ==
    \E c \in Callers : ctl[c].op = "flush" /\ ctl[c].pc = "fault"

\* the initial state of every subsystem
Init ==
    /\ CtxInit
    /\ CCQuiet
    /\ LibsInit
    /\ LTInit
    /\ RecInit
    /\ BufInit
    /\ CapInit
    /\ GpInit
    /\ NlInit
    /\ CtlInit
    /\ OccInit

\* the same, with a CodeCache built with or without address bounds
InitCC ==
    /\ CtxInit
    /\ CCInit
    /\ LibsInit
    /\ LTInit
    /\ RecInit
    /\ BufInit
    /\ CapInit
    /\ GpInit
    /\ NlInit
    /\ CtlInit
    /\ OccInit

(***************************************************************************)
(* Concurrent track calls on a table with room for two entries             *)
(***************************************************************************)
\* the tracker after an initialize that found a heap of MAX_TRACKING_TABLE_SIZE
\* sampling intervals: _table_max_cap is below the 2048 of line 225, which
\* makes it the capacity the table is allocated with
LTInitSized ==
    LET cap == InitialCap(TABLE_FLOOR, MAX_TRACKING_TABLE_SIZE) IN
    /\ lt = [initialized |-> TRUE, max_cap |-> MAX_TRACKING_TABLE_SIZE,
             cap |-> cap, size |-> 0, allocated |-> cap,
             gc_epoch |-> 0, last_gc_epoch |-> 0, stored_error |-> "OK"]
    /\ table = [i \in TableIdx |-> UninitEntry]
    /\ ltLock = 0
    /\ th = [t \in Threads |-> ThIdle]
    /\ heap = [alive |-> {}, weak |-> {}]
    /\ events = << >>
    /\ tracks = 0
    /\ walked = 0
    /\ born = [o \in Objects |-> 0]

InitSized ==
    /\ CtxInit
    /\ CCQuiet
    /\ LibsInit
    /\ LTInitSized
    /\ RecInit
    /\ BufInit
    /\ CapInit
    /\ GpInit
    /\ NlInit
    /\ CtlInit
    /\ OccInit

\* track, GarbageCollectionFinish and flush_table on that tracker; the
\* table cannot grow
TrackNext ==
    \/ onGC
    \/ \E o \in Objects : Collect(o)
    \/ \E t \in Trackers, refOk \in BOOLEAN : track_begin(t, refOk)
    \/ \E t \in Trackers : track_tryLockShared(t)
    \/ \E t \in Trackers : track_claim(t)
    \/ \E t \in Trackers : track_fill(t)
    \/ \E t \in Trackers : track_unlockShared(t)
    \/ \E t \in Trackers : track_full(t)
    \/ \E t \in Threads : cleanup_table_current(t)
    \/ \E t \in Threads : cleanup_table_target(t)
    \/ \E t \in Threads : cleanup_table_cas(t)
    \/ \E t \in Threads : cleanup_table_lock(t)
    \/ \E t \in Threads : cleanup_table_walk(t)
    \/ \E t \in Threads : cleanup_table_unlock(t)
    \/ \E t \in Flushers : flush_table_begin(t)
    \/ \E t \in Flushers : flush_table_lockShared(t)
    \/ \E t \in Flushers, garbage \in BOOLEAN : flush_table_walk(t, garbage)
    \/ \E t \in Flushers : flush_table_unlockShared(t)

SpecTrack == InitSized /\ [][TrackNext]_vars

\* ---- claims on the indices track claims
\* the trackers that hold an index they are to fill
Fillers == {t \in Trackers : th[t].pc = "fill"}
\* the step of tracker t that wins the compare-and-swap on _table_size
ClaimStep(t) == th[t].pc = "claim" /\ th'[t].pc = "fill"

\* C36: track calls under the shared lock claim different indices, each
\* below _table_cap; a claim raises _table_size by one, so that size counts
\* the claimed slots; and the walk of cleanup_table never runs beside a
\* track call that holds the lock.
C36_DistinctIndicesBelowCap ==
    /\ [](\A t1, t2 \in Fillers : t1 # t2 => th[t1].idx # th[t2].idx)
    /\ [](\A t \in Fillers : th[t].idx < lt.cap /\ th[t].idx < lt.size)
    /\ [][\A t \in Trackers :
             ClaimStep(t) => th'[t].idx = lt.size /\ lt'.size = lt.size + 1]_vars
    /\ [](InCleanupLoop => /\ ltLock = 1
                           /\ \A t \in Trackers :
                                 th[t].pc \notin {"claim", "fill", "unlock"})

\* both trackers are storing their entries, at indices 0 and 1
C36_Witness ==
    /\ Fillers = Trackers
    /\ {th[t].idx : t \in Trackers} = {0, 1}
    /\ lt.size = 2
    /\ ltLock = -2

SpecNativeLibs == Init /\ [][NlNext]_vars
SpecOccupancy == Init /\ [][OccNext]_vars

SpecPages == Init /\ [][GpNext]_vars

SpecCap == Init /\ [][CapNext]_vars

SpecBuf == Init /\ [][BufNext]_vars

SpecRec == Init /\ [][RecNext]_vars

SpecCpool == Init /\ [][CpoolNext]_vars

SpecLT == Init /\ [][LTNext]_vars

SpecLibs == Init /\ [][LibsNext]_vars

SpecCC == InitCC /\ [][CCNext]_vars

SpecCtx == Init /\ [][CtxNext]_vars

====
